---------------------------- MODULE Spec2Model ----------------------------
(***************************************************************************)
(* A model of redisgraphio: the decoder of RedisGraph's compact replies    *)
(* (parse.rs), the conversions of decoded values into caller types         *)
(* (FromGraphValue, parse.rs), the response envelope and its statistics    *)
(* (types.rs) and the query builder (types.rs).                            *)
(*                                                                         *)
(* Representation.                                                         *)
(*  - A Rust String is a TLA+ string; TLC treats a string as the sequence  *)
(*    of its characters (Len, SubSeq, \o).                                 *)
(*  - An i64 is kept with its width.  TLC's own integers have 32 bits, so  *)
(*    an integer is held in base 2^16 as <<a, b, c, d>>, standing for      *)
(*    a*2^48 + b*2^32 + c*2^16 + d with b, c, d in 0..65535; an i64 has    *)
(*    a in -32768..32767.  The order of integers is the lexicographic      *)
(*    order of these tuples.                                               *)
(*  - An f64 is held as the canonical decimal text of its value ("4.5",    *)
(*    "-0.01337", "3"): the text Rust's Display prints for it.             *)
(*  - A redis::Value is a record tagged by k, a GraphValue a record        *)
(*    tagged by g, a Result a record tagged by ok.                         *)
(***************************************************************************)
EXTENDS Integers, Sequences, FiniteSets, TLC

VARIABLES
    decTag,      \* SpecDecode: the tag handed to convert_to_graphvalue
    decRaw,      \* SpecDecode: the raw redis::Value handed to it
    decResult,   \* SpecDecode: its RedisResult<GraphValue>
    access,      \* SpecDecode: the last call on the Node or Relationship decoded
    accessResult,\* SpecDecode: what that call returned
    convValue,   \* SpecConvert: the GraphValue handed to from_graph_value
    convTarget,  \* SpecConvert: the target type T
    convResult,  \* SpecConvert: the RedisResult<T>
    reply,       \* SpecResponse: the redis::Value handed to parse_response
    rowType,     \* SpecResponse: the row type T of GraphResponse<T>
    response,    \* SpecResponse: the outcome of parse_response
    lookup,      \* SpecResponse: the GraphStatistic last looked up
    statistic,   \* SpecResponse: the outcome of that get_statistic
    graphQuery,  \* SpecQuery: the GraphQuery
    rendered,    \* SpecQuery: the text of the last construct_query
    command,     \* SpecQuery: the command name of the last read_type
    constructed  \* SpecQuery: what was written to make the query, and what it made

vars == <<decTag, decRaw, decResult, access, accessResult, convValue, convTarget,
          convResult, reply, rowType, response, lookup, statistic, graphQuery, rendered,
          command, constructed>>

\* The value of a variable no operation has written yet.
Idle == [idle |-> TRUE]

-----------------------------------------------------------------------------
(* Strings *)

Char(s, i) == SubSeq(s, i, i)

starts_with(s, p) == Len(p) <= Len(s) /\ SubSeq(s, 1, Len(p)) = p

\* The least index at which pat occurs in s, 0 if it occurs nowhere.
find(s, pat) ==
    LET hits == {i \in 1..(Len(s) - Len(pat) + 1) : SubSeq(s, i, i + Len(pat) - 1) = pat}
    IN  IF hits = {} THEN 0 ELSE CHOOSE i \in hits : \A j \in hits : i <= j

\* str::split_once: the text before and after the first occurrence of pat.
split_once(s, pat) ==
    LET i == find(s, pat)
    IN  IF i = 0 THEN [some |-> FALSE]
        ELSE [some |-> TRUE,
              before |-> SubSeq(s, 1, i - 1),
              after |-> SubSeq(s, i + Len(pat), Len(s))]

Digit == <<"0", "1", "2", "3", "4", "5", "6", "7", "8", "9">>

IsDigit(c) == \E k \in 1..10 : Digit[k] = c

DigitValue(c) == (CHOOSE k \in 1..10 : Digit[k] = c) - 1

AllDigits(s) == \A i \in 1..Len(s) : IsDigit(Char(s, i))

-----------------------------------------------------------------------------
(* 64-bit integers in base 2^16 *)

Limb == 65536

\* The integer n of TLC as an i64.
I64(n) == <<IF n < 0 THEN -1 ELSE 0, IF n < 0 THEN Limb - 1 ELSE 0,
            (n \div Limb) % Limb, n % Limb>>

Zero == <<0, 0, 0, 0>>

Less(x, y) ==
    \E i \in 1..4 : x[i] < y[i] /\ \A j \in 1..(i - 1) : x[j] = y[j]

Leq(x, y) == x = y \/ Less(x, y)

\* -x
Neg(x) ==
    LET d  == (Limb - x[4]) % Limb
        k1 == IF x[4] = 0 THEN 0 ELSE 1
        c  == (2 * Limb - x[3] - k1) % Limb
        k2 == IF x[3] + k1 = 0 THEN 0 ELSE 1
        b  == (2 * Limb - x[2] - k2) % Limb
        k3 == IF x[2] + k2 = 0 THEN 0 ELSE 1
    IN  <<0 - x[1] - k3, b, c, d>>

\* 10*x + k
MulAdd10(x, k) ==
    LET t0 == x[4] * 10 + k
        t1 == x[3] * 10 + (t0 \div Limb)
        t2 == x[2] * 10 + (t1 \div Limb)
        t3 == x[1] * 10 + (t2 \div Limb)
    IN  <<t3, t2 % Limb, t1 % Limb, t0 % Limb>>

\* x div 10 and x mod 10, for x >= 0
DivMod10(x) ==
    LET r1 == (x[1] % 10) * Limb + x[2]
        r2 == (r1 % 10) * Limb + x[3]
        r3 == (r2 % 10) * Limb + x[4]
    IN  [q |-> <<x[1] \div 10, r1 \div 10, r2 \div 10, r3 \div 10>>, r |-> r3 % 10]

I64_MIN == <<-32768, 0, 0, 0>>
I64_MAX == <<32767, Limb - 1, Limb - 1, Limb - 1>>

IsI64(x) == Leq(I64_MIN, x) /\ Leq(x, I64_MAX)

RECURSIVE Digits(_)
\* The decimal digits of x > 0, the empty text for 0.
Digits(x) ==
    IF x = Zero THEN ""
    ELSE LET qr == DivMod10(x) IN Digits(qr.q) \o Digit[qr.r + 1]

\* <i64 as Display>::fmt
i64_to_string(x) ==
    IF x = Zero THEN "0"
    ELSE IF Less(x, Zero) THEN "-" \o Digits(Neg(x))
    ELSE Digits(x)

RECURSIVE Magnitude(_, _)
\* The value of the digit text s appended to the digits of acc.
Magnitude(acc, s) ==
    IF s = "" THEN acc
    ELSE Magnitude(MulAdd10(acc, DigitValue(Head(s))), Tail(s))

\* <i64 as FromStr>::from_str: an optional sign, then one digit or more; a value
\* outside the i64 range is an error.
parse_i64(s) ==
    LET signed == s # "" /\ Head(s) \in {"+", "-"}
        digits == IF signed THEN Tail(s) ELSE s
        mag    == Magnitude(Zero, digits)
        n      == IF signed /\ Head(s) = "-" THEN Neg(mag) ELSE mag
    IN  IF digits = "" \/ ~AllDigits(digits) \/ Len(digits) > 19 \/ ~IsI64(n)
        THEN [ok |-> FALSE]
        ELSE [ok |-> TRUE, v |-> n]


-----------------------------------------------------------------------------
(* 64-bit floats as canonical decimal text *)

RECURSIVE StripLeadingZeros(_)
StripLeadingZeros(s) ==
    IF s # "" /\ Head(s) = "0" THEN StripLeadingZeros(Tail(s)) ELSE s

RECURSIVE StripTrailingZeros(_)
StripTrailingZeros(s) ==
    IF s # "" /\ Char(s, Len(s)) = "0"
    THEN StripTrailingZeros(SubSeq(s, 1, Len(s) - 1)) ELSE s

\* <f64 as FromStr>::from_str on decimal text: an optional sign, digits, an
\* optional point and digits, one digit at least.  (Exponents, "inf" and "nan"
\* are left out: no text of the model holds them.)
parse_f64(s) ==
    LET signed == s # "" /\ Head(s) \in {"+", "-"}
        body   == IF signed THEN Tail(s) ELSE s
        dot    == split_once(body, ".")
        int    == IF dot.some THEN dot.before ELSE body
        frac   == IF dot.some THEN dot.after ELSE ""
        i      == StripLeadingZeros(int)
        f      == StripTrailingZeros(frac)
    IN  IF ~AllDigits(int) \/ ~AllDigits(frac) \/ int \o frac = ""
        THEN [ok |-> FALSE]
        ELSE [ok |-> TRUE,
              v |-> (IF signed /\ Head(s) = "-" THEN "-" ELSE "")
                    \o (IF i = "" THEN "0" ELSE i)
                    \o (IF f = "" THEN "" ELSE "." \o f)]

\* `n as f64` of an i64 (exact up to 2^53).
i64_as_f64(n) == i64_to_string(n)

-----------------------------------------------------------------------------
(* redis::Value, RedisResult, and the types a value is read as *)

\* The variants of redis::Value.
ValueNil == [k |-> "Nil"]
ValueOkay == [k |-> "Okay"]
ValueInt(n) == [k |-> "Int", i |-> n]
ValueData(s) == [k |-> "Data", s |-> s]
ValueStatus(s) == [k |-> "Status", s |-> s]
ValueBulk(items) == [k |-> "Bulk", items |-> items]

Ok(v) == [ok |-> TRUE, v |-> v]

\* A panic: the call does not return.
Panic(msg) == [panic |-> msg]

Panicked(r) == "panic" \in DOMAIN r

\* The redis crate's own type errors (invalid_type_error!).
InvalidType(v, desc) == [ok |-> FALSE, err |-> [desc |-> desc, shows |-> <<v>>]]

\* helpers::create_rediserror, with the arguments formatted into the text.
create_rediserror(desc, shows) == [ok |-> FALSE, err |-> [desc |-> desc, shows |-> shows]]

\* Iterator::collect::<RedisResult<Vec<_>>>: the first error, or every value.
collect(rs) ==
    LET bad == {i \in 1..Len(rs) : ~rs[i].ok}
    IN  IF bad # {} THEN rs[CHOOSE i \in bad : \A j \in bad : i <= j]
        ELSE Ok([i \in 1..Len(rs) |-> rs[i].v])

Ty(name) == [t |-> name, of |-> <<>>]
VecOf(T) == [t |-> "Vec", of |-> <<T>>]
OptionOf(T) == [t |-> "Option", of |-> <<T>>]
TupleOf(Ts) == [t |-> "Tuple", of |-> Ts]

\* HashMap::from_iter over (key, value) pairs: the last pair of a key wins.
hash_map(pairs) ==
    [key \in {pairs[i][1] : i \in 1..Len(pairs)} |->
        LET at == {i \in 1..Len(pairs) : pairs[i][1] = key}
        IN  pairs[CHOOSE i \in at : \A j \in at : j <= i][2]]

RECURSIVE index_map(_)
\* IndexMap::from_iter over (key, value) pairs: a key keeps the place of its
\* first insertion and takes the value of its last.
index_map(pairs) ==
    IF pairs = <<>> THEN <<>>
    ELSE LET rest == index_map(SubSeq(pairs, 1, Len(pairs) - 1))
             last == pairs[Len(pairs)]
         IN  IF \E i \in 1..Len(rest) : rest[i][1] = last[1]
             THEN [i \in 1..Len(rest) |-> IF rest[i][1] = last[1] THEN last ELSE rest[i]]
             ELSE Append(rest, last)


-----------------------------------------------------------------------------
(* GraphValue and the graph types (parse.rs) *)

\* The variants of GraphValue.  Each holds its payload in a field of its own.
Unknown(v) == [g |-> "Unknown", raw |-> v]
Map(m) == [g |-> "Map", map |-> m]
Point(p) == [g |-> "Point", point |-> p]
Path(p) == [g |-> "Path", path |-> p]
Node(n) == [g |-> "Node", node |-> n]
Relation(r) == [g |-> "Relation", rel |-> r]
Array(items) == [g |-> "Array", items |-> items]
Integer(n) == [g |-> "Integer", i |-> n]
Double(d) == [g |-> "Double", d |-> d]
String(s) == [g |-> "String", s |-> s]
Boolean(b) == [g |-> "Boolean", b |-> b]
Null == [g |-> "Null"]

NewGeoPoint(latitude, longitude) == [latitude |-> latitude, longitude |-> longitude]

NewNode(id, label_ids, properties) ==
    [id |-> id, label_ids |-> label_ids, properties |-> properties]

NewRelationship(id, label_id, src, dest, properties) ==
    [id |-> id, label_id |-> label_id, src |-> src, dest |-> dest,
     properties |-> properties]

NewGraphPath(nodes, relationships) == [nodes |-> nodes, relationships |-> relationships]

None == [some |-> FALSE]
Some(x) == [some |-> TRUE, v |-> x]

\* The tags of the compact protocol.
VALUE_UNKNOWN == 0
VALUE_NULL == 1
VALUE_STRING == 2
VALUE_INTEGER == 3
VALUE_BOOLEAN == 4
VALUE_DOUBLE == 5
VALUE_ARRAY == 6
VALUE_EDGE == 7
VALUE_NODE == 8
VALUE_PATH == 9
VALUE_MAP == 10
VALUE_POINT == 11

-----------------------------------------------------------------------------
(* Integer types *)

IntTypes == {"i8", "i16", "i32", "i64", "u8", "u16", "u32", "u64"}

Signed(t) == t \in {"i8", "i16", "i32", "i64"}

\* <t>::MIN
IntMin(t) ==
    CASE t = "i8"  -> I64(-128)
      [] t = "i16" -> I64(-32768)
      [] t = "i32" -> <<-1, Limb - 1, 32768, 0>>
      [] t = "i64" -> I64_MIN
      [] OTHER     -> Zero

\* <t>::MAX
IntMax(t) ==
    CASE t = "i8"  -> I64(127)
      [] t = "i16" -> I64(32767)
      [] t = "i32" -> <<0, 0, 32767, Limb - 1>>
      [] t = "i64" -> I64_MAX
      [] t = "u8"  -> I64(255)
      [] t = "u16" -> I64(65535)
      [] t = "u32" -> <<0, 0, Limb - 1, Limb - 1>>
      [] t = "u64" -> <<Limb - 1, Limb - 1, Limb - 1, Limb - 1>>

\* `n as t`: the low bits of n, read in t.
as_cast(t, n) ==
    CASE t = "u64" -> <<n[1] % Limb, n[2], n[3], n[4]>>
      [] t = "i64" -> <<((n[1] + 32768) % Limb) - 32768, n[2], n[3], n[4]>>
      [] t = "u32" -> <<0, 0, n[3], n[4]>>
      [] t = "i32" -> IF n[3] >= 32768 THEN <<-1, Limb - 1, n[3], n[4]>>
                      ELSE <<0, 0, n[3], n[4]>>
      [] t = "u16" -> <<0, 0, 0, n[4]>>
      [] t = "i16" -> IF n[4] >= 32768 THEN <<-1, Limb - 1, Limb - 1, n[4]>>
                      ELSE <<0, 0, 0, n[4]>>
      [] t = "u8"  -> <<0, 0, 0, n[4] % 256>>
      [] t = "i8"  -> IF n[4] % 256 >= 128
                      THEN <<-1, Limb - 1, Limb - 1, Limb - 256 + (n[4] % 256)>>
                      ELSE <<0, 0, 0, n[4] % 256>>

\* `n as t` whatever n is: the cast a missing range check would leave.
try_from_unchecked(t, n) == Ok(as_cast(t, n))

\* <t as TryFrom<i64>>::try_from
try_from(t, n) ==
    IF Less(n, IntMin(t)) \/ Less(IntMax(t), n) THEN [ok |-> FALSE]
    ELSE Ok(as_cast(t, n))


-----------------------------------------------------------------------------
(* FromGraphValue (parse.rs) *)

\* The largest tuple FromGraphValue is implemented for: T1 .. T12.
MaxTupleArity == 12

StructTypes == {"GraphMap", "GraphPath", "GeoPoint", "Node", "Relationship"}

RECURSIVE type_name(_)
RECURSIVE type_names(_)
\* The names of the types Ts, separated by ", ".
type_names(Ts) ==
    IF Len(Ts) = 0 THEN ""
    ELSE IF Len(Ts) = 1 THEN type_name(Ts[1])
    ELSE type_name(Ts[1]) \o ", " \o type_names(Tail(Ts))

\* std::any::type_name::<T>()
type_name(T) ==
    CASE T.t = "Vec"        -> "alloc::vec::Vec<" \o type_name(T.of[1]) \o ">"
      [] T.t = "Option"     -> "core::option::Option<" \o type_name(T.of[1]) \o ">"
      [] T.t = "Tuple"      -> "(" \o type_names(T.of)
                                   \o (IF Len(T.of) = 1 THEN ",)" ELSE ")")
      [] T.t = "String"     -> "alloc::string::String"
      [] T.t \in StructTypes \cup {"GraphValue"} -> "redisgraphio::parse::" \o T.t
      [] OTHER              -> T.t

RECURSIVE from_graph_value(_, _)

\* from_graph_value_for_int without the range check of try_from.
from_graph_value_for_int_wrapping(t, value) ==
    IF value.g = "Integer" THEN try_from_unchecked(t, value.i)
    ELSE create_rediserror("Cant convert {:?} to " \o t, <<value>>)

\* impl FromGraphValue for $t, of from_graph_value_for_int!
from_graph_value_for_int(t, value) ==
    IF value.g = "Integer"
    THEN LET r == try_from(t, value.i)
         IN  IF r.ok THEN r ELSE create_rediserror("Could not convert to " \o t, <<>>)
    ELSE create_rediserror("Cant convert {:?} to " \o t, <<value>>)

\* impl FromGraphValue for f64
from_graph_value_for_f64(value) ==
    IF value.g = "Double" THEN Ok(value.d)
    ELSE create_rediserror("Cant convert {:?} to $t", <<value>>)

\* impl FromGraphValue for bool
from_graph_value_for_bool(value) ==
    IF value.g = "Boolean" THEN Ok(value.b)
    ELSE create_rediserror("Cant convert {:?} to bool", <<value>>)

\* impl FromGraphValue for ()
from_graph_value_for_unit(value) == Ok(<<>>)

\* A Vec conversion that drops the elements that do not convert.
from_graph_value_for_Vec_lossy(T, value) ==
    IF value.g = "Array"
    THEN LET rs == [i \in 1..Len(value.items) |-> from_graph_value(T, value.items[i])]
         IN  Ok(SelectSeq([i \in 1..Len(rs) |-> IF rs[i].ok THEN Some(rs[i].v) ELSE None],
                          LAMBDA o : o.some))
    ELSE create_rediserror("Cant convert {:?} to Vec", <<value>>)

\* impl<T: FromGraphValue> FromGraphValue for Vec<T>
from_graph_value_for_Vec(T, value) ==
    IF value.g = "Array"
    THEN collect([i \in 1..Len(value.items) |-> from_graph_value(T, value.items[i])])
    ELSE create_rediserror("Cant convert {:?} to Vec", <<value>>)

\* The variant each graph struct is converted from.
StructVariant(t) ==
    CASE t = "GraphMap" -> "Map"
      [] t = "GraphPath" -> "Path"
      [] t = "GeoPoint" -> "Point"
      [] t = "Node" -> "Node"
      [] t = "Relationship" -> "Relation"

\* The struct a Map, Path, Point, Node or Relation holds.
Payload(value) ==
    CASE value.g = "Map" -> value.map
      [] value.g = "Path" -> value.path
      [] value.g = "Point" -> value.point
      [] value.g = "Node" -> value.node
      [] value.g = "Relation" -> value.rel

\* A struct conversion that gives an empty struct for Null.
from_graph_value_for_struct_default(t, value) ==
    IF value.g = StructVariant(t) THEN Ok(Payload(value))
    ELSE IF value.g = "Null" THEN Ok(<<>>)
    ELSE create_rediserror("Cant convert {:?} to " \o t, <<value>>)

\* impl FromGraphValue for GraphMap, GraphPath, GeoPoint, Node, Relationship
from_graph_value_for_struct(t, value) ==
    IF value.g = StructVariant(t) THEN Ok(Payload(value))
    ELSE create_rediserror("Cant convert {:?} to " \o t, <<value>>)

\* An Option conversion that gives None where the inner conversion fails.
from_graph_value_for_Option_swallowing(T, value) ==
    IF value.g = "Null" THEN Ok(None)
    ELSE LET r == from_graph_value(T, value)
         IN  IF r.ok THEN Ok(Some(r.v)) ELSE Ok(None)

\* impl<T: FromGraphValue> FromGraphValue for Option<T>
from_graph_value_for_Option(T, value) ==
    IF value.g = "Null" THEN Ok(None)
    ELSE LET r == from_graph_value(T, value)
         IN  IF r.ok THEN Ok(Some(r.v)) ELSE r

\* impl FromGraphValue for GraphValue
from_graph_value_for_GraphValue(value) == Ok(value)

\* impl FromGraphValue for String
from_graph_value_for_String(value) ==
    IF value.g = "String" THEN Ok(value.s)
    ELSE create_rediserror("Cant convert {:?} to String", <<value>>)

\* A tuple conversion that takes a longer Array and reads its first elements.
from_graph_value_for_tuple_prefix(Ts, v) ==
    IF v.g = "Array"
    THEN IF Len(v.items) < Len(Ts)
         THEN create_rediserror("Wrong length to create Tuple {} from {:?}",
                                <<type_name(TupleOf(Ts)), v.items>>)
         ELSE collect([i \in 1..Len(Ts) |-> from_graph_value(Ts[i], v.items[i])])
    ELSE create_rediserror("Can not create Tuple from {:?}", <<v>>)

\* impl FromGraphValue for (T1, .., Tn), of from_graph_value_for_tuple!
from_graph_value_for_tuple(Ts, v) ==
    IF v.g = "Array"
    THEN IF Len(v.items) # Len(Ts)
         THEN create_rediserror("Wrong length to create Tuple {} from {:?}",
                                <<type_name(TupleOf(Ts)), v.items>>)
         ELSE collect([i \in 1..Len(Ts) |-> from_graph_value(Ts[i], v.items[i])])
    ELSE create_rediserror("Can not create Tuple from {:?}", <<v>>)

\* helpers::from_graph_value::<T>: the conversion T implements.
from_graph_value(T, value) ==
    CASE T.t \in IntTypes    -> from_graph_value_for_int(T.t, value)
      [] T.t = "f64"         -> from_graph_value_for_f64(value)
      [] T.t = "bool"        -> from_graph_value_for_bool(value)
      [] T.t = "()"          -> from_graph_value_for_unit(value)
      [] T.t = "Vec"         -> from_graph_value_for_Vec(T.of[1], value)
      [] T.t \in StructTypes -> from_graph_value_for_struct(T.t, value)
      [] T.t = "Option"      -> from_graph_value_for_Option(T.of[1], value)
      [] T.t = "GraphValue"  -> from_graph_value_for_GraphValue(value)
      [] T.t = "String"      -> from_graph_value_for_String(value)
      [] T.t = "Tuple"       -> from_graph_value_for_tuple(T.of, value)


-----------------------------------------------------------------------------
(* PropertyAccess (parse.rs): the properties of a Node or a Relationship *)

\* PropertyAccess::properties
PropertyAccess_properties(self) == self.properties

\* IndexMap::get: the value stored under the key, if there is one.
IndexMap_get(map, key) ==
    IF \E i \in 1..Len(map) : map[i][1] = key
    THEN Some(map[CHOOSE i \in 1..Len(map) : map[i][1] = key][2])
    ELSE None

\* A get_property_by_label_id that converts the stored value to T itself and
\* so tells a stored Null from a missing id.
get_property_by_label_id_telling_null(self, T, label_id) ==
    LET val == IndexMap_get(PropertyAccess_properties(self), label_id)
    IN  IF val.some
        THEN LET r == from_graph_value(T, val.v)
             IN  IF r.ok THEN Ok(Some(r.v)) ELSE r
        ELSE Ok(None)

\* PropertyAccess::get_property_by_label_id: the stored value is converted to
\* Option<T>, the type of the Ok of the result.
get_property_by_label_id(self, T, label_id) ==
    LET val == IndexMap_get(PropertyAccess_properties(self), label_id)
    IN  IF val.some THEN from_graph_value(OptionOf(T), val.v) ELSE Ok(None)

\* HashMap::get: the value stored under the key, if there is one.
HashMap_get(map, key) ==
    IF key \in DOMAIN map THEN Some(map[key]) ELSE None

\* GraphMap::get: the stored value is converted to Option<T>.
GraphMap_get(self, T, key) ==
    LET val == HashMap_get(self, key)
    IN  IF val.some THEN from_graph_value(OptionOf(T), val.v) ELSE Ok(None)

\* PropertyAccess::get_property_by_index: IndexMap's Index panics on an index
\* that is out of bounds.
get_property_by_index(self, T, idx) ==
    IF idx < Len(PropertyAccess_properties(self))
    THEN from_graph_value(T, PropertyAccess_properties(self)[idx + 1][2])
    ELSE Panic("IndexMap: index out of bounds")

\* PropertyAccess::property_values
property_values(self, T) ==
    from_graph_value(T, Array([i \in 1..Len(PropertyAccess_properties(self)) |->
                                  PropertyAccess_properties(self)[i][2]]))

-----------------------------------------------------------------------------
(* FromRedisValue: the redis crate's conversions the decoder calls, and the
   decoder's own (parse.rs) *)

RECURSIVE from_redis_value(_, _)
RECURSIVE convert_to_graphvalue(_, _)

\* `Ok(GraphValue::G(expr?))`: Ok(x) wrapped in the variant G, an error as it is.
Variant(g, r) ==
    IF ~r.ok THEN r
    ELSE CASE g = "Node"     -> Ok(Node(r.v))
           [] g = "Relation" -> Ok(Relation(r.v))
           [] g = "Path"     -> Ok(Path(r.v))
           [] g = "Map"      -> Ok(Map(r.v))
           [] g = "Point"    -> Ok(Point(r.v))
           [] g = "Double"   -> Ok(Double(r.v))
           [] g = "Integer"  -> Ok(Integer(r.v))
           [] g = "Array"    -> Ok(Array(r.v))
           [] g = "String"   -> Ok(String(r.v))

\* redis: from_redis_value::<i64>
from_redis_value_i64(v) ==
    CASE v.k = "Int" -> Ok(v.i)
      [] v.k \in {"Status", "Data"} ->
            LET r == parse_i64(v.s)
            IN  IF r.ok THEN r ELSE InvalidType(v, "Could not convert from string.")
      [] OTHER -> InvalidType(v, "Response type not convertible to numeric.")

\* redis: from_redis_value::<f64> and ::<f32>
from_redis_value_float(v) ==
    CASE v.k = "Int" -> Ok(i64_as_f64(v.i))
      [] v.k \in {"Status", "Data"} ->
            LET r == parse_f64(v.s)
            IN  IF r.ok THEN r ELSE InvalidType(v, "Could not convert from string.")
      [] OTHER -> InvalidType(v, "Response type not convertible to numeric.")

\* redis: from_redis_value::<String>
from_redis_value_String(v) ==
    CASE v.k = "Data" -> Ok(v.s)
      [] v.k = "Okay" -> Ok("OK")
      [] v.k = "Status" -> Ok(v.s)
      [] OTHER -> InvalidType(v, "Response type not string compatible.")

\* redis: FromRedisValue::from_redis_values.  A tuple type reads the items in
\* chunks of its arity; every other type reads one value per item.
from_redis_values(T, items) ==
    IF T.t = "Tuple"
    THEN LET n == Len(T.of)
         IN  IF Len(items) % n # 0
             THEN InvalidType(ValueBulk(items), "Bulk response of wrong dimension")
             ELSE collect([j \in 1..(Len(items) \div n) |->
                     collect([i \in 1..n |->
                         from_redis_value(T.of[i], items[(j - 1) * n + i])])])
    ELSE collect([i \in 1..Len(items) |-> from_redis_value(T, items[i])])

\* redis: from_redis_value::<Vec<T>>
from_redis_value_Vec(T, v) ==
    CASE v.k = "Bulk" -> from_redis_values(T, v.items)
      [] v.k = "Nil" -> Ok(<<>>)
      [] v.k = "Data" -> InvalidType(v, "Response type not vector compatible.")
      [] OTHER -> InvalidType(v, "Response type not vector compatible.")

\* redis: from_redis_value::<(T1, .., Tn)>
from_redis_value_tuple(Ts, v) ==
    IF v.k = "Bulk"
    THEN IF Len(v.items) # Len(Ts)
         THEN InvalidType(v, "Bulk response of wrong dimension")
         ELSE collect([i \in 1..Len(Ts) |-> from_redis_value(Ts[i], v.items[i])])
    ELSE InvalidType(v, "Not a bulk response")

\* impl FromRedisValue for GraphValue
from_redis_value_GraphValue(v) ==
    IF v.k = "Bulk" /\ Len(v.items) = 2
    THEN IF v.items[1].k = "Int"
         THEN convert_to_graphvalue(v.items[1].i, v.items[2])
         ELSE create_rediserror("Couldnt convert {:?} to GraphValue", <<v.items[1]>>)
    ELSE create_rediserror("Couldnt convert {:?} to GraphValue", <<v>>)

\* impl FromRedisValue for GraphPath
from_redis_value_GraphPath(v) ==
    LET pair == from_redis_value(TupleOf(<<Ty("GraphValue"), Ty("GraphValue")>>), v)
    IN  IF ~pair.ok THEN pair
        ELSE LET nodes == from_graph_value(VecOf(Ty("Node")), pair.v[1])
                 relationships == from_graph_value(VecOf(Ty("Relationship")), pair.v[2])
             IN  IF ~nodes.ok THEN nodes
                 ELSE IF ~relationships.ok THEN relationships
                 ELSE Ok(NewGraphPath(nodes.v, relationships.v))

\* impl FromRedisValue for GeoPoint
from_redis_value_GeoPoint(v) ==
    LET pair == from_redis_value(TupleOf(<<Ty("f32"), Ty("f32")>>), v)
    IN  IF pair.ok THEN Ok(NewGeoPoint(pair.v[1], pair.v[2])) ELSE pair

\* impl FromRedisValue for GraphMap
from_redis_value_GraphMap(v) ==
    IF v.k = "Bulk"
    THEN LET temp == from_redis_values(TupleOf(<<Ty("String"), Ty("GraphValue")>>), v.items)
         IN  IF temp.ok THEN Ok(hash_map(temp.v)) ELSE temp
    ELSE create_rediserror("Couldnt convert {:?} to GraphMap", <<v>>)

\* A parse_properties whose map is ordered by property id.
parse_properties_sorted(value) ==
    LET temp == from_redis_value(VecOf(Ty("Value")), value)
    IN  IF ~temp.ok THEN temp
        ELSE LET properties ==
                   collect([i \in 1..Len(temp.v) |->
                       from_redis_value(TupleOf(<<Ty("i64"), Ty("i64"), Ty("Value")>>),
                                        temp.v[i])])
             IN  IF ~properties.ok THEN properties
                 ELSE LET pairs ==
                            collect([i \in 1..Len(properties.v) |->
                                LET gv == convert_to_graphvalue(properties.v[i][2],
                                                                properties.v[i][3])
                                IN  IF gv.ok THEN Ok(<<properties.v[i][1], gv.v>>) ELSE gv])
                          map == index_map(pairs.v)
                      IN  IF pairs.ok
                          THEN Ok([i \in 1..Len(map) |->
                                    map[CHOOSE j \in 1..Len(map) :
                                          Cardinality({k \in 1..Len(map) :
                                                Less(map[k][1], map[j][1])}) = i - 1]])
                          ELSE pairs

\* parse_properties
parse_properties(value) ==
    LET temp == from_redis_value(VecOf(Ty("Value")), value)
    IN  IF ~temp.ok THEN temp
        ELSE LET properties ==
                   collect([i \in 1..Len(temp.v) |->
                       from_redis_value(TupleOf(<<Ty("i64"), Ty("i64"), Ty("Value")>>),
                                        temp.v[i])])
             IN  IF ~properties.ok THEN properties
                 ELSE LET pairs ==
                            collect([i \in 1..Len(properties.v) |->
                                LET gv == convert_to_graphvalue(properties.v[i][2],
                                                                properties.v[i][3])
                                IN  IF gv.ok THEN Ok(<<properties.v[i][1], gv.v>>) ELSE gv])
                      IN  IF pairs.ok THEN Ok(index_map(pairs.v)) ELSE pairs

\* A decoding of Node that takes the first three of three elements or more.
from_redis_value_Node_lenient(v) ==
    IF v.k = "Bulk" /\ Len(v.items) >= 3
    THEN LET fields == collect(<<from_redis_value(Ty("i64"), v.items[1]),
                                 from_redis_value(VecOf(Ty("i64")), v.items[2]),
                                 parse_properties(v.items[3])>>)
         IN  IF fields.ok THEN Ok(NewNode(fields.v[1], fields.v[2], fields.v[3]))
             ELSE fields
    ELSE create_rediserror("Couldnt convert {:?} to Node", <<v>>)

\* impl FromRedisValue for Node
from_redis_value_Node(v) ==
    IF v.k = "Bulk" /\ Len(v.items) = 3
    THEN LET fields == collect(<<from_redis_value(Ty("i64"), v.items[1]),
                                 from_redis_value(VecOf(Ty("i64")), v.items[2]),
                                 parse_properties(v.items[3])>>)
         IN  IF fields.ok THEN Ok(NewNode(fields.v[1], fields.v[2], fields.v[3]))
             ELSE fields
    ELSE create_rediserror("Couldnt convert {:?} to Node", <<v>>)

\* impl FromRedisValue for Relationship
from_redis_value_Relationship(v) ==
    IF v.k = "Bulk" /\ Len(v.items) = 5
    THEN LET fields == collect(<<from_redis_value(Ty("i64"), v.items[1]),
                                 from_redis_value(Ty("i64"), v.items[2]),
                                 from_redis_value(Ty("i64"), v.items[3]),
                                 from_redis_value(Ty("i64"), v.items[4]),
                                 parse_properties(v.items[5])>>)
         IN  IF fields.ok
             THEN Ok(NewRelationship(fields.v[1], fields.v[2], fields.v[3],
                                     fields.v[4], fields.v[5]))
             ELSE fields
    ELSE create_rediserror("Couldnt convert {:?} to Relationship", <<v>>)

\* redis::from_redis_value::<T>: the conversion T implements.
from_redis_value(T, v) ==
    CASE T.t = "Value"        -> Ok(v)
      [] T.t = "i64"          -> from_redis_value_i64(v)
      [] T.t \in {"f64", "f32"} -> from_redis_value_float(v)
      [] T.t = "String"       -> from_redis_value_String(v)
      [] T.t = "Vec"          -> from_redis_value_Vec(T.of[1], v)
      [] T.t = "Tuple"        -> from_redis_value_tuple(T.of, v)
      [] T.t = "GraphValue"   -> from_redis_value_GraphValue(v)
      [] T.t = "GraphPath"    -> from_redis_value_GraphPath(v)
      [] T.t = "GeoPoint"     -> from_redis_value_GeoPoint(v)
      [] T.t = "GraphMap"     -> from_redis_value_GraphMap(v)
      [] T.t = "Node"         -> from_redis_value_Node(v)
      [] T.t = "Relationship" -> from_redis_value_Relationship(v)

\* A Boolean of tag 4 that takes every text but "true" for false.
convert_boolean_default(val) ==
    LET s == from_redis_value(Ty("String"), val)
    IN  IF ~s.ok THEN s
        ELSE IF s.v = "true" THEN Ok(Boolean(TRUE))
        ELSE Ok(Boolean(FALSE))

\* The Boolean of tag 4: the raw value read as a String and matched.
convert_boolean(val) ==
    LET s == from_redis_value(Ty("String"), val)
    IN  IF ~s.ok THEN s
        ELSE IF s.v = "true" THEN Ok(Boolean(TRUE))
        ELSE IF s.v = "false" THEN Ok(Boolean(FALSE))
        ELSE create_rediserror("Cant convert {:?} to bool", <<val>>)

\* convert_to_graphvalue with the arms of VALUE_EDGE and VALUE_NODE exchanged.
convert_to_graphvalue_exchanged(type_, val) ==
    CASE type_ = I64(VALUE_EDGE)    -> Variant("Node", from_redis_value(Ty("Node"), val))
      [] type_ = I64(VALUE_NODE)    -> Variant("Relation", from_redis_value(Ty("Relationship"), val))
      [] type_ = I64(VALUE_PATH)    -> Variant("Path", from_redis_value(Ty("GraphPath"), val))
      [] type_ = I64(VALUE_MAP)     -> Variant("Map", from_redis_value(Ty("GraphMap"), val))
      [] type_ = I64(VALUE_POINT)   -> Variant("Point", from_redis_value(Ty("GeoPoint"), val))
      [] type_ = I64(VALUE_NULL)    -> Ok(Null)
      [] type_ = I64(VALUE_DOUBLE)  -> Variant("Double", from_redis_value(Ty("f64"), val))
      [] type_ = I64(VALUE_INTEGER) -> Variant("Integer", from_redis_value(Ty("i64"), val))
      [] type_ = I64(VALUE_ARRAY)   -> Variant("Array", from_redis_value(VecOf(Ty("GraphValue")), val))
      [] type_ = I64(VALUE_STRING)  -> Variant("String", from_redis_value(Ty("String"), val))
      [] type_ = I64(VALUE_BOOLEAN) -> convert_boolean(val)
      [] OTHER                      -> Ok(Unknown(val))

\* A convert_to_graphvalue that refuses the tags it does not know.
convert_to_graphvalue_strict(type_, val) ==
    CASE type_ = I64(VALUE_NODE)    -> Variant("Node", from_redis_value(Ty("Node"), val))
      [] type_ = I64(VALUE_EDGE)    -> Variant("Relation", from_redis_value(Ty("Relationship"), val))
      [] type_ = I64(VALUE_PATH)    -> Variant("Path", from_redis_value(Ty("GraphPath"), val))
      [] type_ = I64(VALUE_MAP)     -> Variant("Map", from_redis_value(Ty("GraphMap"), val))
      [] type_ = I64(VALUE_POINT)   -> Variant("Point", from_redis_value(Ty("GeoPoint"), val))
      [] type_ = I64(VALUE_NULL)    -> Ok(Null)
      [] type_ = I64(VALUE_DOUBLE)  -> Variant("Double", from_redis_value(Ty("f64"), val))
      [] type_ = I64(VALUE_INTEGER) -> Variant("Integer", from_redis_value(Ty("i64"), val))
      [] type_ = I64(VALUE_ARRAY)   -> Variant("Array", from_redis_value(VecOf(Ty("GraphValue")), val))
      [] type_ = I64(VALUE_STRING)  -> Variant("String", from_redis_value(Ty("String"), val))
      [] type_ = I64(VALUE_BOOLEAN) -> convert_boolean(val)
      [] type_ = I64(VALUE_UNKNOWN) -> Ok(Unknown(val))
      [] OTHER                      -> create_rediserror("Unknown type {}", <<type_>>)

\* convert_to_graphvalue
convert_to_graphvalue(type_, val) ==
    CASE type_ = I64(VALUE_NODE)    -> Variant("Node", from_redis_value(Ty("Node"), val))
      [] type_ = I64(VALUE_EDGE)    -> Variant("Relation", from_redis_value(Ty("Relationship"), val))
      [] type_ = I64(VALUE_PATH)    -> Variant("Path", from_redis_value(Ty("GraphPath"), val))
      [] type_ = I64(VALUE_MAP)     -> Variant("Map", from_redis_value(Ty("GraphMap"), val))
      [] type_ = I64(VALUE_POINT)   -> Variant("Point", from_redis_value(Ty("GeoPoint"), val))
      [] type_ = I64(VALUE_NULL)    -> Ok(Null)
      [] type_ = I64(VALUE_DOUBLE)  -> Variant("Double", from_redis_value(Ty("f64"), val))
      [] type_ = I64(VALUE_INTEGER) -> Variant("Integer", from_redis_value(Ty("i64"), val))
      [] type_ = I64(VALUE_ARRAY)   -> Variant("Array", from_redis_value(VecOf(Ty("GraphValue")), val))
      [] type_ = I64(VALUE_STRING)  -> Variant("String", from_redis_value(Ty("String"), val))
      [] type_ = I64(VALUE_BOOLEAN) -> convert_boolean(val)
      [] OTHER                      -> Ok(Unknown(val))


-----------------------------------------------------------------------------
(* Inputs *)

\* The longest sequence the inputs hold (array items, properties, path nodes,
\* map entries).
MaxSeqLen == 2

SeqsUpTo(S, n) == UNION {[1..m -> S] : m \in 0..n}

\* The raw pair (tag, raw) that encodes one value of a row or of an array.
Enc(tag, raw) == ValueBulk(<<ValueInt(I64(tag)), raw>>)

Tags == {I64(n) : n \in -1..13} \cup {I64_MIN, I64_MAX}

RawScalars ==
    {ValueNil, ValueOkay, ValueStatus("OK"),
     ValueInt(I64(7)), ValueInt(I64(-1)), ValueInt(I64_MAX),
     ValueData("abc"), ValueData("true"), ValueData("false"), ValueData("True"),
     ValueData("1"), ValueData("4.5"), ValueData(""),
     ValueData("0"), ValueData("TRUE"), ValueData("true "), ValueStatus("true"),
     ValueInt(I64(1)), ValueInt(I64(0))}

EncScalars ==
    {Enc(VALUE_NULL, ValueNil), Enc(VALUE_STRING, ValueData("abc")),
     Enc(VALUE_INTEGER, ValueInt(I64(7))), Enc(VALUE_BOOLEAN, ValueData("true")),
     Enc(VALUE_DOUBLE, ValueData("4.5")), Enc(12, ValueData("abc"))}

RawArrays == {ValueBulk(s) : s \in SeqsUpTo(EncScalars, MaxSeqLen)}

RawTriples ==
    {ValueBulk(<<ValueInt(I64(10)), ValueInt(I64(VALUE_INTEGER)), ValueInt(I64(7))>>),
     ValueBulk(<<ValueInt(I64(11)), ValueInt(I64(VALUE_STRING)), ValueData("abc")>>),
     ValueBulk(<<ValueInt(I64(10)), ValueInt(I64(VALUE_NULL)), ValueNil>>)}

RawProperties == {ValueBulk(s) : s \in SeqsUpTo(RawTriples, MaxSeqLen)}

RawLabels == {ValueBulk(<<>>), ValueBulk(<<ValueInt(I64(1)), ValueInt(I64(2))>>)}

RawNodes ==
    {ValueBulk(<<ValueInt(I64(5)), l, ps>>) : l \in RawLabels, ps \in RawProperties}

RawRelationships ==
    {ValueBulk(<<ValueInt(I64(3)), ValueInt(I64(0)), ValueInt(I64(5)), ValueInt(I64(6)), ps>>) :
        ps \in RawProperties}

RawPathNodes ==
    {Enc(VALUE_NODE, ValueBulk(<<ValueInt(I64(n)), ValueBulk(<<>>), ValueBulk(<<>>)>>)) :
        n \in {5, 6}}

RawPathRelationships ==
    {Enc(VALUE_EDGE, ValueBulk(<<ValueInt(I64(3)), ValueInt(I64(0)), ValueInt(I64(5)),
                                 ValueInt(I64(6)), ValueBulk(<<>>)>>))}

RawPaths ==
    {ValueBulk(<<Enc(VALUE_ARRAY, ValueBulk(ns)), Enc(VALUE_ARRAY, ValueBulk(rs))>>) :
        ns \in SeqsUpTo(RawPathNodes, MaxSeqLen),
        rs \in SeqsUpTo(RawPathRelationships, MaxSeqLen)}

RawEntries ==
    {<<ValueData("a"), Enc(VALUE_INTEGER, ValueInt(I64(7)))>>,
     <<ValueData("b"), Enc(VALUE_DOUBLE, ValueData("4.5"))>>,
     <<ValueData("a"), Enc(VALUE_NULL, ValueNil)>>}

\* The entries (key, value) as the flat sequence key, value, key, value, ..
Flat(entries) == [i \in 1..(2 * Len(entries)) |-> entries[(i + 1) \div 2][2 - (i % 2)]]

RawMaps == {ValueBulk(Flat(es)) : es \in SeqsUpTo(RawEntries, MaxSeqLen)}

RawPoints ==
    {ValueBulk(<<ValueData("32.07"), ValueData("34.8")>>),
     ValueBulk(<<ValueData("1"), ValueData("x")>>),
     ValueBulk(<<ValueData("1")>>)}

RawMalformed ==
    {ValueBulk(<<ValueData("a")>>),
     ValueBulk(<<ValueInt(I64(5)), ValueBulk(<<>>)>>),
     ValueBulk(<<ValueInt(I64(5)), ValueInt(I64(0)), ValueInt(I64(5)), ValueInt(I64(6))>>),
     ValueBulk(<<ValueInt(I64(5)), ValueBulk(<<>>),
                 ValueBulk(<<ValueBulk(<<ValueInt(I64(10)), ValueInt(I64(VALUE_INTEGER))>>)>>)>>),
     ValueBulk(<<ValueInt(I64(5)), ValueBulk(<<>>),
                 ValueBulk(<<ValueBulk(<<ValueInt(I64(10)), ValueInt(I64(VALUE_BOOLEAN)),
                                         ValueData("yes")>>)>>)>>),
     ValueBulk(<<Enc(VALUE_BOOLEAN, ValueData("yes"))>>)}

\* The first n elements, n = 0 .. 6, of a Node and of a Relationship that are
\* followed by elements the protocol does not send.
RawLengths ==
    {SubSeq(<<ValueInt(I64(5)), ValueBulk(<<>>), ValueBulk(<<>>), ValueInt(I64(6)),
              ValueBulk(<<>>), ValueInt(I64(1))>>, 1, n) : n \in 0..6}
    \cup {SubSeq(<<ValueInt(I64(3)), ValueInt(I64(0)), ValueInt(I64(5)), ValueInt(I64(6)),
                   ValueBulk(<<>>), ValueInt(I64(1))>>, 1, n) : n \in 0..6}

Raws ==
    RawScalars \cup RawArrays \cup RawProperties \cup RawNodes \cup RawRelationships
        \cup RawPaths \cup RawMaps \cup RawPoints \cup RawMalformed
        \cup {ValueBulk(items) : items \in RawLengths}

-----------------------------------------------------------------------------
(* SpecDecode: one value of a reply is decoded *)

DecodeIdle ==
    /\ convValue = Idle /\ convTarget = Idle /\ convResult = Idle
    /\ reply = Idle /\ rowType = Idle /\ response = Idle
    /\ lookup = Idle /\ statistic = Idle
    /\ graphQuery = Idle /\ rendered = Idle /\ command = Idle
    /\ constructed = Idle

DecodeInit ==
    /\ decTag \in Tags
    /\ decRaw \in Raws
    /\ decResult = Idle
    /\ access = Idle
    /\ accessResult = Idle
    /\ DecodeIdle

\* convert_to_graphvalue(type_, val) is called on the pair.
Decode ==
    /\ decResult = Idle
    /\ decResult' = convert_to_graphvalue(decTag, decRaw)
    /\ UNCHANGED <<decTag, decRaw, access, accessResult, convValue, convTarget, convResult,
                   reply, rowType, response, lookup, statistic, graphQuery, rendered,
                   command, constructed>>

\* The types a property is read as, and the types all properties are read as.
PropertyTypes == {Ty("GraphValue"), Ty("i64"), Ty("String"), OptionOf(Ty("i64"))}

PropertyListTypes ==
    {VecOf(Ty("GraphValue")), VecOf(OptionOf(Ty("i64"))), TupleOf(<<Ty("i64")>>),
     TupleOf(<<Ty("i64"), Ty("String")>>)}

\* A Node or a Relationship was decoded.
DecodedEntity ==
    /\ decResult # Idle
    /\ decResult.ok
    /\ decResult.v.g \in {"Node", "Relation"}

\* entity.get_property_by_index::<T>(idx) is called on what was decoded.
GetPropertyByIndex(T, idx) ==
    /\ DecodedEntity
    /\ access' = [op |-> "get_property_by_index", T |-> T, idx |-> idx]
    /\ accessResult' = get_property_by_index(Payload(decResult.v), T, idx)
    /\ UNCHANGED <<decTag, decRaw, decResult, convValue, convTarget, convResult, reply,
                   rowType, response, lookup, statistic, graphQuery, rendered, command,
                   constructed>>

\* entity.property_values::<T>() is called on what was decoded.
PropertyValues(T) ==
    /\ DecodedEntity
    /\ access' = [op |-> "property_values", T |-> T]
    /\ accessResult' = property_values(Payload(decResult.v), T)
    /\ UNCHANGED <<decTag, decRaw, decResult, convValue, convTarget, convResult, reply,
                   rowType, response, lookup, statistic, graphQuery, rendered, command,
                   constructed>>

\* The property ids and the map keys that are looked up: 12 and "c" are stored
\* by no value of the model.
LabelIds == {I64(10), I64(11), I64(12)}

MapKeys == {"a", "b", "c"}

\* A map was decoded.
DecodedMap ==
    /\ decResult # Idle
    /\ decResult.ok
    /\ decResult.v.g = "Map"

\* entity.get_property_by_label_id::<T>(label_id) is called on what was decoded.
GetPropertyByLabelId(T, label_id) ==
    /\ DecodedEntity
    /\ access' = [op |-> "get_property_by_label_id", T |-> T, label_id |-> label_id]
    /\ accessResult' = get_property_by_label_id(Payload(decResult.v), T, label_id)
    /\ UNCHANGED <<decTag, decRaw, decResult, convValue, convTarget, convResult, reply,
                   rowType, response, lookup, statistic, graphQuery, rendered, command,
                   constructed>>

\* map.get::<T>(key) is called on the map that was decoded.
MapGet(T, key) ==
    /\ DecodedMap
    /\ access' = [op |-> "get", T |-> T, key |-> key]
    /\ accessResult' = GraphMap_get(Payload(decResult.v), T, key)
    /\ UNCHANGED <<decTag, decRaw, decResult, convValue, convTarget, convResult, reply,
                   rowType, response, lookup, statistic, graphQuery, rendered, command,
                   constructed>>

DecodeNext ==
    \/ Decode
    \/ \E T \in PropertyTypes, idx \in 0..MaxSeqLen : GetPropertyByIndex(T, idx)
    \/ \E T \in PropertyListTypes : PropertyValues(T)
    \/ \E T \in PropertyTypes, label_id \in LabelIds : GetPropertyByLabelId(T, label_id)
    \/ \E T \in PropertyTypes, key \in MapKeys : MapGet(T, key)

SpecDecode == DecodeInit /\ [][DecodeNext]_vars


-----------------------------------------------------------------------------
(* The tag table: what a correctly shaped payload is, per tag *)

\* The variant the protocol assigns to the tags 0 .. 11.
TagVariant ==
    <<"Unknown", "Null", "String", "Integer", "Boolean", "Double", "Array",
      "Relation", "Node", "Path", "Map", "Point">>

\* s is decimal text: digits with at most one point, an optional minus sign first.
IsDecimalText(s) ==
    LET body == IF s # "" /\ Head(s) = "-" THEN Tail(s) ELSE s
    IN  /\ \E i \in 1..Len(body) : IsDigit(Char(body, i))
        /\ \A i \in 1..Len(body) : IsDigit(Char(body, i)) \/ Char(body, i) = "."
        /\ Cardinality({i \in 1..Len(body) : Char(body, i) = "."}) <= 1

IsInt(raw) == raw.k = "Int"

IsBulkOf(raw, n) == raw.k = "Bulk" /\ Len(raw.items) = n

RECURSIVE Shaped(_, _)

\* raw is a pair (tag, payload) with the payload shaped for the tag.
Encoded(raw) ==
    /\ IsBulkOf(raw, 2)
    /\ IsInt(raw.items[1])
    /\ \A t \in 0..11 : raw.items[1].i = I64(t) => Shaped(t, raw.items[2])

\* raw is a pair (tag, payload) of tag t with the payload shaped for it.
EncodedAs(t, raw) == Encoded(raw) /\ raw.items[1].i = I64(t)

\* raw is a list of (property id, tag, payload) triples.
ShapedProperties(raw) ==
    /\ raw.k = "Bulk"
    /\ \A i \in 1..Len(raw.items) :
          /\ IsBulkOf(raw.items[i], 3)
          /\ IsInt(raw.items[i].items[1])
          /\ IsInt(raw.items[i].items[2])
          /\ \A t \in 0..11 : raw.items[i].items[2].i = I64(t)
                                 => Shaped(t, raw.items[i].items[3])

\* raw is a payload of the shape the protocol sends under tag t.
Shaped(t, raw) ==
    CASE t = VALUE_STRING  -> raw.k = "Data"
      [] t = VALUE_INTEGER -> IsInt(raw)
      [] t = VALUE_BOOLEAN -> raw \in {ValueData("true"), ValueData("false")}
      [] t = VALUE_DOUBLE  -> raw.k = "Data" /\ IsDecimalText(raw.s)
      [] t = VALUE_ARRAY   -> raw.k = "Bulk" /\ \A i \in 1..Len(raw.items) : Encoded(raw.items[i])
      [] t = VALUE_EDGE    -> /\ IsBulkOf(raw, 5)
                              /\ \A i \in 1..4 : IsInt(raw.items[i])
                              /\ ShapedProperties(raw.items[5])
      [] t = VALUE_NODE    -> /\ IsBulkOf(raw, 3)
                              /\ IsInt(raw.items[1])
                              /\ raw.items[2].k = "Bulk"
                              /\ \A i \in 1..Len(raw.items[2].items) : IsInt(raw.items[2].items[i])
                              /\ ShapedProperties(raw.items[3])
      [] t = VALUE_PATH    -> /\ IsBulkOf(raw, 2)
                              /\ EncodedAs(VALUE_ARRAY, raw.items[1])
                              /\ EncodedAs(VALUE_ARRAY, raw.items[2])
                              /\ \A i \in 1..Len(raw.items[1].items[2].items) :
                                    EncodedAs(VALUE_NODE, raw.items[1].items[2].items[i])
                              /\ \A i \in 1..Len(raw.items[2].items[2].items) :
                                    EncodedAs(VALUE_EDGE, raw.items[2].items[2].items[i])
      [] t = VALUE_MAP     -> /\ raw.k = "Bulk"
                              /\ Len(raw.items) % 2 = 0
                              /\ \A i \in 1..Len(raw.items) :
                                    IF i % 2 = 1 THEN raw.items[i].k = "Data"
                                    ELSE Encoded(raw.items[i])
      [] t = VALUE_POINT   -> /\ IsBulkOf(raw, 2)
                              /\ \A i \in 1..2 : /\ raw.items[i].k = "Data"
                                                 /\ IsDecimalText(raw.items[i].s)
      [] OTHER             -> TRUE

\* One correctly shaped payload per tag.
ShapedSample(t) ==
    CASE t = VALUE_STRING  -> ValueData("abc")
      [] t = VALUE_INTEGER -> ValueInt(I64(7))
      [] t = VALUE_BOOLEAN -> ValueData("false")
      [] t = VALUE_DOUBLE  -> ValueData("4.5")
      [] t = VALUE_ARRAY   -> ValueBulk(<<Enc(VALUE_INTEGER, ValueInt(I64(7)))>>)
      [] t = VALUE_EDGE    -> ValueBulk(<<ValueInt(I64(3)), ValueInt(I64(0)), ValueInt(I64(5)),
                                          ValueInt(I64(6)), ValueBulk(<<>>)>>)
      [] t = VALUE_NODE    -> ValueBulk(<<ValueInt(I64(5)), ValueBulk(<<>>), ValueBulk(<<>>)>>)
      [] t = VALUE_PATH    -> ValueBulk(<<Enc(VALUE_ARRAY, ValueBulk(<<>>)),
                                          Enc(VALUE_ARRAY, ValueBulk(<<>>))>>)
      [] t = VALUE_MAP     -> ValueBulk(<<ValueData("a"), Enc(VALUE_NULL, ValueNil)>>)
      [] t = VALUE_POINT   -> ValueBulk(<<ValueData("32.07"), ValueData("34.8")>>)
      [] OTHER             -> ValueNil

\* C1: a tag t of 0 .. 11 with a payload correctly shaped for t decodes, without
\* error, to the variant the table gives t (0 Unknown, 1 Null, 2 String,
\* 3 Integer, 4 Boolean, 5 Double, 6 Array, 7 Relation, 8 Node, 9 Path, 10 Map,
\* 11 Point), and no other tag of 0 .. 11 decodes to that variant.
C1_TagTable ==
    decResult # Idle =>
        \A t \in 0..11 :
            (decTag = I64(t) /\ Shaped(t, decRaw)) =>
                /\ decResult.ok
                /\ decResult.v.g = TagVariant[t + 1]
                /\ \A u \in 0..11 :
                      LET other == convert_to_graphvalue(I64(u), ShapedSample(u))
                      IN  other.ok /\ (other.v.g = decResult.v.g => u = t)

\* A Node with a property has been decoded from tag 8.
C1_Witness ==
    /\ decResult # Idle
    /\ decTag = I64(VALUE_NODE)
    /\ Shaped(VALUE_NODE, decRaw)
    /\ decResult.ok
    /\ decResult.v.g = "Node"
    /\ Len(decResult.v.node.properties) > 0


-----------------------------------------------------------------------------
(* Claims about the decoder *)

Decoded == decResult # Idle

\* The result is an error and holds nothing else.
IsError(r) == DOMAIN r = {"ok", "err"} /\ ~r.ok

\* C11: decoding a Node succeeds only on a sequence of exactly 3 elements and
\* decoding a Relationship only on a sequence of exactly 5; on a raw value that
\* is no sequence or a sequence of another length the result is an error that
\* holds no Node or Relationship, and a successful result holds every field.
C11_EntityShape ==
    Decoded =>
        /\ decTag = I64(VALUE_NODE) =>
              /\ ~IsBulkOf(decRaw, 3) => IsError(decResult)
              /\ decResult.ok =>
                    /\ decResult.v.g = "Node"
                    /\ DOMAIN decResult.v.node = {"id", "label_ids", "properties"}
                    /\ IsInt(decRaw.items[1]) => ValueInt(decResult.v.node.id) = decRaw.items[1]
              /\ ~decResult.ok => IsError(decResult)
        /\ decTag = I64(VALUE_EDGE) =>
              /\ ~IsBulkOf(decRaw, 5) => IsError(decResult)
              /\ decResult.ok =>
                    /\ decResult.v.g = "Relation"
                    /\ DOMAIN decResult.v.rel =
                          {"id", "label_id", "src", "dest", "properties"}
                    /\ \A i \in {j \in 1..4 : IsInt(decRaw.items[j])} :
                          ValueInt(<<decResult.v.rel.id, decResult.v.rel.label_id,
                                     decResult.v.rel.src, decResult.v.rel.dest>>[i])
                            = decRaw.items[i]
              /\ ~decResult.ok => IsError(decResult)

\* A sequence of 4 elements whose first 3 are those of a Node was decoded under
\* the tag of Node, and was refused.
C11_Witness ==
    /\ Decoded
    /\ decTag = I64(VALUE_NODE)
    /\ IsBulkOf(decRaw, 4)
    /\ Shaped(VALUE_NODE, ValueBulk(SubSeq(decRaw.items, 1, 3)))
    /\ IsError(decResult)

\* The raw property list of the raw Node or Relationship under the tag.
RawPropertiesOf(tag, raw) ==
    IF tag = I64(VALUE_NODE) THEN raw.items[3] ELSE raw.items[5]

\* The ids of the triples are pairwise distinct.
DistinctIds(triples) ==
    \A i, j \in 1..Len(triples.items) :
        i # j => triples.items[i].items[1] # triples.items[j].items[1]

\* The decoding of the raw value of triple i under the tag of triple i.
PropertyValue(triples, i) ==
    convert_to_graphvalue(triples.items[i].items[2].i, triples.items[i].items[3]).v

\* A well formed Node or Relationship whose property ids are pairwise distinct
\* was decoded.
DecodedDistinct ==
    /\ Decoded
    /\ \E t \in {VALUE_NODE, VALUE_EDGE} : decTag = I64(t) /\ Shaped(t, decRaw)
    /\ DistinctIds(RawPropertiesOf(decTag, decRaw))

\* C12: the properties of a Node or Relationship decoded from triples
\* (property id, tag, raw) with pairwise distinct ids are one entry per triple,
\* in the order of the triples, entry i holding the id of triple i and the
\* decoding of its raw value under its own tag; get_property_by_index(i) is the
\* conversion of the i-th of them and property_values the conversion of the
\* Array of all of them in that order.  The raw Node [5, [1, 2], [(10, 3, 7)]]
\* decodes to Node{id = 5, label_ids = [1, 2], properties = {10: Integer(7)}}.
C12_PropertyOrder ==
    /\ convert_to_graphvalue(I64(VALUE_NODE),
          ValueBulk(<<ValueInt(I64(5)), ValueBulk(<<ValueInt(I64(1)), ValueInt(I64(2))>>),
                      ValueBulk(<<ValueBulk(<<ValueInt(I64(10)), ValueInt(I64(VALUE_INTEGER)),
                                              ValueInt(I64(7))>>)>>)>>))
         = Ok(Node(NewNode(I64(5), <<I64(1), I64(2)>>, <<<<I64(10), Integer(I64(7))>>>>)))
    /\ DecodedDistinct =>
        LET triples == RawPropertiesOf(decTag, decRaw)
            n == Len(triples.items)
        IN  /\ decResult.ok
            /\ Payload(decResult.v).properties =
                  [i \in 1..n |-> <<triples.items[i].items[1].i, PropertyValue(triples, i)>>]
            /\ (access # Idle /\ access.op = "get_property_by_index" /\ access.idx < n) =>
                  accessResult = from_graph_value(access.T, PropertyValue(triples, access.idx + 1))
            /\ (access # Idle /\ access.op = "property_values") =>
                  accessResult = from_graph_value(access.T,
                                    Array([i \in 1..n |-> PropertyValue(triples, i)]))

\* A Node whose first property has the greater id was decoded and its second
\* property, the one of the smaller id, was read by its index.
C12_Witness ==
    /\ DecodedDistinct
    /\ decTag = I64(VALUE_NODE)
    /\ Len(decRaw.items[3].items) = 2
    /\ decRaw.items[3].items[1].items[1] = ValueInt(I64(11))
    /\ decRaw.items[3].items[2].items[1] = ValueInt(I64(10))
    /\ access # Idle
    /\ access.op = "get_property_by_index"
    /\ access.idx = 1
    /\ access.T = Ty("i64")
    /\ accessResult = Ok(I64(7))

\* C13: under tag 0 and under every tag outside 0 .. 11, whatever the raw
\* value is, convert_to_graphvalue does not fail and yields Unknown holding a
\* raw value equal to the one it was given.
C13_UnknownTag ==
    (Decoded /\ \A t \in 1..11 : decTag # I64(t)) => decResult = Ok(Unknown(decRaw))

\* A raw value that is a well formed Node was decoded under tag 12, which is
\* no tag of the protocol, and is kept as it was in Unknown.
C13_Witness ==
    /\ Decoded
    /\ decTag = I64(12)
    /\ Shaped(VALUE_NODE, decRaw)
    /\ decResult.ok
    /\ decResult.v.g = "Unknown"
    /\ decResult.v.raw = decRaw

\* The raw value is a string of the wire: bulk data, a status line or OK.
IsWireString(raw) == raw.k \in {"Data", "Status", "Okay"}

\* The text of a string of the wire.
WireText(raw) == IF raw.k = "Okay" THEN "OK" ELSE raw.s

\* C14: under tag 4 the raw value is read as a string and matched literally:
\* the text "true" yields Boolean(true), the text "false" yields Boolean(false),
\* every other text ("True", "TRUE", "1", "0", "") and every raw value that is
\* no string yields an error; no boolean is made up.
C14_BooleanLiteral ==
    (Decoded /\ decTag = I64(VALUE_BOOLEAN)) =>
        IF IsWireString(decRaw) /\ WireText(decRaw) = "true"
        THEN decResult = Ok(Boolean(TRUE))
        ELSE IF IsWireString(decRaw) /\ WireText(decRaw) = "false"
        THEN decResult = Ok(Boolean(FALSE))
        ELSE IsError(decResult)

\* The text "True" was decoded under tag 4 and refused.
C14_Witness ==
    /\ Decoded
    /\ decTag = I64(VALUE_BOOLEAN)
    /\ decRaw = ValueData("True")
    /\ IsError(decResult)

\* What a keyed lookup as T returns, given whether the key is stored and the
\* value v stored under it: absent for a key that is missing and for a stored
\* Null alike, present(x) for another value that converts to x under T, and
\* that conversion's error for one that does not.
IsLookupOf(result, T, stored, v) ==
    IF ~stored \/ v = Null THEN result = Ok(None)
    ELSE LET r == from_graph_value(T, v)
         IN  IF r.ok THEN result = Ok(Some(r.v))
             ELSE result = r /\ IsError(result)

\* A step that looks a key up in the decoded map, or an id in the properties of
\* the decoded Node or Relationship, returns that and leaves what was decoded.
C22_Step ==
    /\ (access' # access /\ access'.op = "get") =>
          LET map == decResult.v.map
              key == access'.key
              stored == key \in DOMAIN map
          IN  /\ decResult' = decResult
              /\ IsLookupOf(accessResult', access'.T, stored,
                            IF stored THEN map[key] ELSE Null)
    /\ (access' # access /\ access'.op = "get_property_by_label_id") =>
          LET properties == Payload(decResult.v).properties
              at == {i \in 1..Len(properties) : properties[i][1] = access'.label_id}
              stored == at # {}
          IN  /\ decResult' = decResult
              /\ Cardinality(at) <= 1
              /\ IsLookupOf(accessResult', access'.T, stored,
                            IF stored THEN properties[CHOOSE i \in at : TRUE][2] ELSE Null)

\* C22: GraphMap::get(key) and get_property_by_label_id(id) return Ok(absent)
\* both when the key or id is not stored and when it is stored with the value
\* Null; when it is stored with another value v they return Ok(present(x)) if
\* v converts to x under T and an error if it does not; the map or property
\* list is left as it was.
C22_KeyedLookup == [][C22_Step]_vars

\* C22: the key a, stored with Null in the decoded map, was looked up as a
\* GraphValue and the result is absent, as it is for the key c that is not
\* stored.
C22_Witness ==
    /\ Decoded
    /\ decResult.ok
    /\ decResult.v.g = "Map"
    /\ "a" \in DOMAIN decResult.v.map
    /\ decResult.v.map["a"] = Null
    /\ "c" \notin DOMAIN decResult.v.map
    /\ access # Idle
    /\ access.op = "get"
    /\ access.key = "a"
    /\ access.T = Ty("GraphValue")
    /\ accessResult = Ok(None)

-----------------------------------------------------------------------------
(* SpecConvert: a decoded value is converted to a caller's type *)

\* The longest Array handed to a tuple conversion: one more than MaxTupleArity,
\* so that every tuple meets an Array that is too long for it.
MaxArrayLen == 13

\* Integers on both sides of the bounds of every integer type.
IntegerValues ==
    {I64_MIN, <<-1, Limb - 1, 32767, Limb - 1>>, <<-1, Limb - 1, 32768, 0>>,
     I64(-32769), I64(-32768), I64(-129), I64(-128), I64(-1), I64(0), I64(7),
     I64(127), I64(128), I64(255), I64(256), I64(32767), I64(32768), I64(65535),
     I64(65536), <<0, 0, 32767, Limb - 1>>, <<0, 0, 32768, 0>>,
     <<0, 0, Limb - 1, Limb - 1>>, <<0, 1, 0, 0>>, I64_MAX}

SampleNode == NewNode(I64(5), <<I64(1), I64(2)>>, <<<<I64(10), Integer(I64(7))>>>>)

SampleRelationship == NewRelationship(I64(3), I64(0), I64(5), I64(6), <<>>)

ConvScalars ==
    {Integer(n) : n \in IntegerValues}
        \cup {Null, Boolean(TRUE), Boolean(FALSE), Double("4.5"), String("abc"), String(""),
              Unknown(ValueNil),
              Map(hash_map(<<<<"a", Integer(I64(7))>>, <<"b", Null>>>>)),
              Point(NewGeoPoint("32.07", "34.8")),
              Path(NewGraphPath(<<SampleNode>>, <<>>)),
              Node(SampleNode),
              Relation(SampleRelationship)}

ConvElements == {Integer(I64(7)), Integer(I64(256)), String("abc"), Null}

ConvArrays == {Array(s) : s \in SeqsUpTo(ConvElements, MaxSeqLen)}

\* Arrays of Integer(7) with at most one element that is something else.
LongArrays ==
    {Array([i \in 1..n |-> IF i = j THEN odd ELSE Integer(I64(7))]) :
        n \in 0..MaxArrayLen, j \in 0..MaxArrayLen, odd \in {String("abc"), Integer(I64(256))}}

ConvValues == ConvScalars \cup ConvArrays \cup LongArrays

ScalarTargets ==
    {Ty(t) : t \in IntTypes \cup StructTypes \cup {"f64", "bool", "()", "String", "GraphValue"}}

VecTargets ==
    {VecOf(T) : T \in {Ty("u8"), Ty("i32"), Ty("String"), Ty("GraphValue"),
                       OptionOf(Ty("u8"))}}

\* Tuples of u8 with at most one component that is a String.
TupleTargets ==
    {TupleOf([i \in 1..m |-> IF i = j THEN Ty("String") ELSE Ty("u8")]) :
        m \in 1..MaxTupleArity, j \in 0..MaxTupleArity}

ConvTargets ==
    ScalarTargets \cup VecTargets \cup TupleTargets
        \cup {OptionOf(T) : T \in ScalarTargets \cup VecTargets}
        \cup {OptionOf(OptionOf(Ty("u8"))),
              TupleOf(<<VecOf(Ty("u8")), OptionOf(Ty("String"))>>),
              VecOf(TupleOf(<<Ty("u8")>>))}

ConvertIdle ==
    /\ decTag = Idle /\ decRaw = Idle /\ decResult = Idle
    /\ access = Idle /\ accessResult = Idle
    /\ reply = Idle /\ rowType = Idle /\ response = Idle
    /\ lookup = Idle /\ statistic = Idle
    /\ graphQuery = Idle /\ rendered = Idle /\ command = Idle
    /\ constructed = Idle

ConvertInit ==
    /\ convValue \in ConvValues
    /\ convTarget \in ConvTargets
    /\ convResult = Idle
    /\ ConvertIdle

\* from_graph_value::<T>(value) is called.
Convert ==
    /\ convResult = Idle
    /\ convResult' = from_graph_value(convTarget, convValue)
    /\ UNCHANGED <<decTag, decRaw, access, accessResult, decResult, convValue, convTarget,
                   reply, rowType, response, lookup, statistic, graphQuery, rendered,
                   command, constructed>>

ConvertNext == Convert

SpecConvert == ConvertInit /\ [][ConvertNext]_vars


-----------------------------------------------------------------------------
(* Claims about the conversions *)

Converted == convResult # Idle

\* Element i of the Array convValue, converted to T.
ElementAs(T, i) == from_graph_value(T, convValue.items[i])

\* C3: a tuple of arity M in 1 .. 12 converts from an Array only: an Array of
\* another length fails; an Array of length M succeeds exactly when each
\* element converts to the type of its own position, and then yields those
\* conversions in order; a value that is no Array fails.
C3_TupleArityExact ==
    (Converted /\ convTarget.t = "Tuple") =>
        LET M == Len(convTarget.of)
        IN  /\ M \in 1..MaxTupleArity
            /\ convValue.g # "Array" => ~convResult.ok
            /\ (convValue.g = "Array" /\ Len(convValue.items) # M) => ~convResult.ok
            /\ (convValue.g = "Array" /\ Len(convValue.items) = M) =>
                  /\ convResult.ok <=> \A i \in 1..M : ElementAs(convTarget.of[i], i).ok
                  /\ convResult.ok =>
                        /\ Len(convResult.v) = M
                        /\ \A i \in 1..M : convResult.v[i] = ElementAs(convTarget.of[i], i).v

\* An Array of 12 elements has been converted to a tuple of arity 12 whose
\* fifth component is a String.
C3_Witness ==
    /\ Converted
    /\ convTarget.t = "Tuple"
    /\ Len(convTarget.of) = MaxTupleArity
    /\ convTarget.of[5] = Ty("String")
    /\ convValue.g = "Array"
    /\ convResult.ok
    /\ convResult.v[5] = "abc"

\* 2^k, for k in 0 .. 64.
Pow2(k) ==
    IF k = 64 THEN <<Limb, 0, 0, 0>>
    ELSE [i \in 1..4 |-> IF i = 4 - (k \div 16) THEN 2 ^ (k % 16) ELSE 0]

Width(t) ==
    CASE t \in {"i8", "u8"} -> 8
      [] t \in {"i16", "u16"} -> 16
      [] t \in {"i32", "u32"} -> 32
      [] t \in {"i64", "u64"} -> 64

\* n is a value of the integer type t.
InRange(t, n) ==
    IF Signed(t)
    THEN Leq(Neg(Pow2(Width(t) - 1)), n) /\ Less(n, Pow2(Width(t) - 1))
    ELSE Leq(Zero, n) /\ Less(n, Pow2(Width(t)))

\* C4: an integer type takes the Integer variant only: Integer(v) converts to v
\* when v is in the range of the type and fails when it is not (never a wrapped
\* value); every other variant fails.  Integer(7) converts to the u8 7 and does
\* not convert to bool.
C4_IntegerNarrowing ==
    Converted =>
        /\ convTarget.t \in IntTypes =>
              /\ (convValue.g = "Integer" /\ InRange(convTarget.t, convValue.i)) =>
                    convResult.ok /\ convResult.v = convValue.i
              /\ (convValue.g = "Integer" /\ ~InRange(convTarget.t, convValue.i)) =>
                    ~convResult.ok
              /\ convValue.g # "Integer" => ~convResult.ok
        /\ (convValue = Integer(I64(7)) /\ convTarget = Ty("u8")) => convResult = Ok(I64(7))
        /\ (convValue = Integer(I64(7)) /\ convTarget = Ty("bool")) => ~convResult.ok

\* Integer(256) has been refused as a u8.
C4_Witness ==
    /\ Converted
    /\ convTarget = Ty("u8")
    /\ convValue = Integer(I64(256))
    /\ ~convResult.ok

\* C5: for Option<T>, Null converts to None; a value v that is not Null converts
\* to Some(x) exactly when v converts to x under T, and when T's conversion of
\* v fails the conversion fails with that error.
C5_OptionConversion ==
    (Converted /\ convTarget.t = "Option") =>
        LET inner == from_graph_value(convTarget.of[1], convValue)
        IN  /\ convValue = Null => convResult = Ok(None)
            /\ (convValue # Null /\ inner.ok) => convResult = Ok(Some(inner.v))
            /\ (convValue # Null /\ ~inner.ok) => convResult = inner

\* A String has been refused as an Option<i32>, with the error of i32.
C5_Witness ==
    /\ Converted
    /\ convTarget = OptionOf(Ty("i32"))
    /\ convValue = String("abc")
    /\ ~convResult.ok
    /\ convResult.err.desc = "Cant convert {:?} to i32"

\* C6: Vec<T> converts from an Array only, to the conversions of its elements
\* in the same order and number; if one element fails the conversion fails;
\* every other variant fails.
C6_VecAllOrNothing ==
    (Converted /\ convTarget.t = "Vec") =>
        /\ convValue.g # "Array" => ~convResult.ok
        /\ convValue.g = "Array" =>
              LET n == Len(convValue.items)
              IN  /\ convResult.ok <=> \A i \in 1..n : ElementAs(convTarget.of[1], i).ok
                  /\ convResult.ok =>
                        /\ Len(convResult.v) = n
                        /\ \A i \in 1..n : convResult.v[i] = ElementAs(convTarget.of[1], i).v

\* An Array whose first element converts and whose second does not has been
\* refused as a Vec<u8>.
C6_Witness ==
    /\ Converted
    /\ convTarget = VecOf(Ty("u8"))
    /\ convValue = Array(<<Integer(I64(7)), String("abc")>>)
    /\ ~convResult.ok

\* The variant each of bool, String and the graph structs converts from.
OwnVariant(t) ==
    CASE t = "bool" -> "Boolean"
      [] t = "String" -> "String"
      [] t = "GraphMap" -> "Map"
      [] t = "GeoPoint" -> "Point"
      [] t = "GraphPath" -> "Path"
      [] t = "Node" -> "Node"
      [] t = "Relationship" -> "Relation"

\* The payload of a Boolean, a String or a struct variant.
OwnPayload(v) ==
    CASE v.g = "Boolean" -> v.b
      [] v.g = "String" -> v.s
      [] v.g = "Map" -> v.map
      [] v.g = "Point" -> v.point
      [] v.g = "Path" -> v.path
      [] v.g = "Node" -> v.node
      [] v.g = "Relation" -> v.rel

\* C7: bool, String, GraphMap, GeoPoint, GraphPath, Node and Relationship each
\* convert from their own variant (Boolean, String, Map, Point, Path, Node,
\* Relation) and from no other, Null included, and return its payload unchanged.
C7_OwnVariantOnly ==
    (Converted /\ convTarget.t \in {"bool", "String"} \cup StructTypes) =>
        /\ convResult.ok <=> convValue.g = OwnVariant(convTarget.t)
        /\ convResult.ok => convResult.v = OwnPayload(convValue)

\* A Relation has been converted to the Relationship it holds.
C7_Witness ==
    /\ Converted
    /\ convTarget = Ty("Relationship")
    /\ convValue.g = "Relation"
    /\ convResult = Ok(SampleRelationship)


\* The conversion at which from_graph_value::<T>(value), which fails, gives up:
\* the type that was expected there and the value that was met there.  An
\* Option hands the value to its inner type, a Vec and a tuple of the right
\* length hand the first element that fails to that element's type.
RECURSIVE FailingSite(_, _)
FailingSite(T, value) ==
    LET firstFailing(Ts) ==
            CHOOSE i \in 1..Len(value.items) :
                /\ ~from_graph_value(Ts[i], value.items[i]).ok
                /\ \A k \in 1..(i - 1) : from_graph_value(Ts[k], value.items[k]).ok
    IN  CASE T.t = "Option" -> FailingSite(T.of[1], value)
          [] T.t = "Vec" /\ value.g = "Array" ->
                LET Ts == [i \in 1..Len(value.items) |-> T.of[1]]
                    i == firstFailing(Ts)
                IN  FailingSite(Ts[i], value.items[i])
          [] T.t = "Tuple" /\ value.g = "Array" /\ Len(value.items) = Len(T.of) ->
                LET i == firstFailing(T.of)
                IN  FailingSite(T.of[i], value.items[i])
          [] OTHER -> [T |-> T, value |-> value]

\* The name an error text uses for the type T: the written name of a scalar or
\* struct type, the word Vec or Tuple for a Vec or a tuple.
WrittenName(T) == T.t

\* The error names the type T: its text contains the name, or, for a tuple,
\* its first shown item is the tuple's type name.
NamesType(err, T) ==
    \/ find(err.desc, WrittenName(T)) # 0
    \/ /\ T.t = "Tuple"
       /\ err.desc = "Wrong length to create Tuple {} from {:?}"
       /\ err.shows[1] = type_name(T)

\* The error shows the value: the last item it formats is the value, or, for
\* a tuple length mismatch, the value's elements (and so their count).
ShowsValue(err, value) ==
    /\ Len(err.shows) > 0
    /\ IF err.desc = "Wrong length to create Tuple {} from {:?}"
       THEN value.g = "Array" /\ err.shows[Len(err.shows)] = value.items
       ELSE err.shows[Len(err.shows)] = value

\* C18: every error of a conversion carries the expected target type's name
\* and the debug representation of the offending value: an out-of-range
\* integer narrowing, a non-Double value converted to a float, a non-Array
\* value converted to a tuple and a tuple length mismatch included.
C18_ErrorContext ==
    (Converted /\ ~convResult.ok) =>
        LET site == FailingSite(convTarget, convValue)
        IN  /\ NamesType(convResult.err, site.T)
            /\ ShowsValue(convResult.err, site.value)

\* C18: the errors that do carry both: every failing conversion other than an
\* out-of-range integer narrowing (no value shown) and a conversion to f64
\* (no type named).
C18_ErrorContextElsewhere ==
    (Converted /\ ~convResult.ok) =>
        LET site == FailingSite(convTarget, convValue)
            err == convResult.err
        IN  CASE site.T.t \in IntTypes /\ site.value.g = "Integer" ->
                    /\ err.desc = "Could not convert to " \o site.T.t
                    /\ err.shows = <<>>
              [] site.T.t = "f64" ->
                    /\ err.desc = "Cant convert {:?} to $t"
                    /\ find(err.desc, "f64") = 0
                    /\ err.shows = <<site.value>>
              [] OTHER ->
                    /\ NamesType(err, site.T)
                    /\ ShowsValue(err, site.value)

\* C18: the Integer 256 was converted to u8 and the error names u8 and shows
\* no value.
C18_Witness ==
    /\ Converted
    /\ convTarget = Ty("u8")
    /\ convValue = Integer(I64(256))
    /\ convResult = create_rediserror("Could not convert to u8", <<>>)


-----------------------------------------------------------------------------
(* GraphResponse (types.rs) *)

NewGraphResponse(header, data, statistics) ==
    [header |-> header, data |-> data, statistics |-> statistics]

\* A parse_header that skips the entries that are no (i64, String) pair.
parse_header_skipping(header) ==
    LET pairs == [i \in 1..Len(header) |->
                    from_redis_value(TupleOf(<<Ty("i64"), Ty("String")>>), header[i])]
        kept  == SelectSeq(pairs, LAMBDA r : r.ok)
    IN  Ok([i \in 1..Len(kept) |-> kept[i].v[2]])

\* The collect of parse_header over the entries read as (i64, String): the
\* unwrap panics on the first that is an error, .1 keeps the name of the others.
parse_header_names(pairs) ==
    IF \E i \in 1..Len(pairs) : ~pairs[i].ok
    THEN Panic("called Result::unwrap() on an Err value")
    ELSE Ok([i \in 1..Len(pairs) |-> pairs[i].v[2]])

\* GraphResponse::parse_header (every entry is read once, then the names are
\* collected).
parse_header(header) ==
    CHOOSE names \in {parse_header_names(pairs) :
                        pairs \in {[i \in 1..Len(header) |->
                            from_redis_value(TupleOf(<<Ty("i64"), Ty("String")>>),
                                             header[i])]}} : TRUE

\* A parse_response that leaves out the rows T does not convert.
parse_response_lossy(T, value) ==
    IF value.k = "Bulk"
    THEN CASE Len(value.items) = 1 ->
                LET statistics == from_redis_value(VecOf(Ty("String")), value.items[1])
                IN  IF statistics.ok THEN Ok(NewGraphResponse(<<>>, <<>>, statistics.v))
                    ELSE statistics
           [] Len(value.items) = 3 ->
                LET parts == from_redis_value(TupleOf(<<VecOf(Ty("Value")),
                                                        VecOf(VecOf(Ty("GraphValue"))),
                                                        VecOf(Ty("String"))>>), value)
                IN  IF ~parts.ok THEN parts
                    ELSE LET header == parse_header(parts.v[1])
                             rows == [i \in 1..Len(parts.v[2]) |->
                                         from_graph_value(T, Array(parts.v[2][i]))]
                             kept == SelectSeq(rows, LAMBDA r : r.ok)
                         IN  IF Panicked(header) THEN header
                             ELSE Ok(NewGraphResponse(header.v,
                                        [i \in 1..Len(kept) |-> kept[i].v], parts.v[3]))
           [] OTHER ->
                create_rediserror("Can't parse response of length {} to GraphResponse",
                                  <<Len(value.items)>>)
    ELSE create_rediserror("Invalid Response from Redis", <<>>)

\* An arm `1 =>` that takes the single element for the header.
parse_response_statistics_as_header(statistics) ==
    IF statistics.ok THEN Ok(NewGraphResponse(statistics.v, <<>>, <<>>))
    ELSE statistics

\* The arm `1 =>` of parse_response, statistics being what values[0] was read as.
parse_response_statistics(statistics) ==
    IF statistics.ok THEN Ok(NewGraphResponse(<<>>, <<>>, statistics.v))
    ELSE statistics

\* The arm `3 =>` of parse_response, parts being what the reply was read as:
\* the header is parsed first, then the rows are converted and collected.
parse_response_table(T, parts) ==
    IF ~parts.ok THEN parts
    ELSE LET header == parse_header(parts.v[1])
             data == collect([i \in 1..Len(parts.v[2]) |->
                         from_graph_value(T, Array(parts.v[2][i]))])
         IN  IF Panicked(header) THEN header
             ELSE IF ~data.ok THEN data
             ELSE Ok(NewGraphResponse(header.v, data.v, parts.v[3]))

\* A parse_response whose error for a sequence of another length does not tell
\* the length.
parse_response_unnamed_length(T, value) ==
    IF value.k = "Bulk"
    THEN CASE Len(value.items) = 1 ->
                CHOOSE r \in {parse_response_statistics(statistics) :
                                statistics \in {from_redis_value(VecOf(Ty("String")),
                                                                 value.items[1])}} : TRUE
           [] Len(value.items) = 3 ->
                CHOOSE r \in {parse_response_table(T, parts) :
                                parts \in {from_redis_value(
                                    TupleOf(<<VecOf(Ty("Value")),
                                              VecOf(VecOf(Ty("GraphValue"))),
                                              VecOf(Ty("String"))>>), value)}} : TRUE
           [] OTHER -> create_rediserror("Invalid Response from Redis", <<>>)
    ELSE create_rediserror("Invalid Response from Redis", <<>>)

\* GraphResponse::<T>::parse_response (the reply is read once in each arm).
parse_response(T, value) ==
    IF value.k = "Bulk"
    THEN CASE Len(value.items) = 1 ->
                CHOOSE r \in {parse_response_statistics(statistics) :
                                statistics \in {from_redis_value(VecOf(Ty("String")),
                                                                 value.items[1])}} : TRUE
           [] Len(value.items) = 3 ->
                CHOOSE r \in {parse_response_table(T, parts) :
                                parts \in {from_redis_value(
                                    TupleOf(<<VecOf(Ty("Value")),
                                              VecOf(VecOf(Ty("GraphValue"))),
                                              VecOf(Ty("String"))>>), value)}} : TRUE
           [] OTHER ->
                create_rediserror("Can't parse response of length {} to GraphResponse",
                                  <<Len(value.items)>>)
    ELSE create_rediserror("Invalid Response from Redis", <<>>)

GraphStatistics ==
    {"LabelsAdded", "NodesCreated", "RelationshipsCreated", "IndicesCreated",
     "PropertiesSet", "NodesDeleted", "RelationshipsDeleted", "IndicesDeleted",
     "CachedExecution", "ExecutionTime"}

\* GraphStatistic::match_name
match_name(self) ==
    CASE self = "LabelsAdded" -> "Labels added"
      [] self = "NodesCreated" -> "Nodes created"
      [] self = "RelationshipsCreated" -> "Relationships created"
      [] self = "IndicesCreated" -> "Indices created"
      [] self = "PropertiesSet" -> "Properties set"
      [] self = "NodesDeleted" -> "Nodes deleted"
      [] self = "RelationshipsDeleted" -> "Relationships deleted"
      [] self = "IndicesDeleted" -> "Indices deleted"
      [] self = "CachedExecution" -> "Cached execution"
      [] self = "ExecutionTime" -> "Query internal"

\* The value get_statistic returns for the line str it has chosen.
statistic_of_line(str) ==
    LET parts == split_once(str, ": ")
    IN  IF ~parts.some THEN None
        ELSE LET cut == split_once(parts.after, " ")
                 text == IF cut.some THEN cut.before ELSE parts.after
                 number == parse_f64(text)
             IN  IF number.ok THEN Some(number.v)
                 ELSE Panic("called Result::unwrap() on an Err value")

\* A get_statistic that reads the text after the label's own length, whatever
\* number the line holds first.
get_statistic_whole_line(self, stat) ==
    LET start == match_name(stat)
        hits == {i \in 1..Len(self.statistics) : starts_with(self.statistics[i], start)}
    IN  IF hits = {} THEN None
        ELSE LET str == self.statistics[CHOOSE i \in hits : \A j \in hits : i <= j]
                 parts == split_once(str, ": ")
                 number == parse_f64(parts.after)
             IN  IF ~parts.some THEN None
                 ELSE IF number.ok THEN Some(number.v)
                 ELSE Panic("called Result::unwrap() on an Err value")

\* A get_statistic that goes on to the next line when the line that starts with
\* the label holds no ": ".
get_statistic_skipping(self, stat) ==
    LET start == match_name(stat)
        hits == {i \in 1..Len(self.statistics) :
                    /\ starts_with(self.statistics[i], start)
                    /\ split_once(self.statistics[i], ": ").some}
    IN  IF hits = {} THEN None
        ELSE statistic_of_line(self.statistics[CHOOSE i \in hits : \A j \in hits : i <= j])

\* GraphResponse::get_statistic: the first line that starts with the label decides.
get_statistic(self, stat) ==
    LET start == match_name(stat)
        hits == {i \in 1..Len(self.statistics) : starts_with(self.statistics[i], start)}
    IN  IF hits = {} THEN None
        ELSE statistic_of_line(self.statistics[CHOOSE i \in hits : \A j \in hits : i <= j])

-----------------------------------------------------------------------------
(* Replies of the server and the lookups made on the parsed response *)

MaxRows == 3

HeaderPair(id, name) == ValueBulk(<<ValueInt(I64(id)), ValueData(name)>>)

\* Header entries: pairs (type-id, name), and entries that are no such pair.
HeaderEntries ==
    {HeaderPair(1, "a"), HeaderPair(2, "b"), ValueData("a"), ValueBulk(<<ValueInt(I64(1))>>)}

Headers == {ValueBulk(h) : h \in SeqsUpTo(HeaderEntries, MaxSeqLen)}

\* Rows of (tag, raw) pairs; the last two hold a pair that does not decode and a
\* cell that is no pair.
ReplyRows ==
    {ValueBulk(<<>>),
     ValueBulk(<<Enc(VALUE_INTEGER, ValueInt(I64(4)))>>),
     ValueBulk(<<Enc(VALUE_INTEGER, ValueInt(I64(5)))>>),
     ValueBulk(<<Enc(VALUE_STRING, ValueData("abc"))>>),
     ValueBulk(<<Enc(VALUE_INTEGER, ValueInt(I64(4))), Enc(VALUE_STRING, ValueData("abc"))>>),
     ValueBulk(<<Enc(VALUE_NULL, ValueNil)>>),
     ValueBulk(<<Enc(VALUE_BOOLEAN, ValueData("yes"))>>),
     ValueBulk(<<ValueInt(I64(3))>>)}

StatisticLines ==
    {"Nodes created: 3", "Nodes created: 7", "Nodes created", "Nodes created: abc",
     "Nodes deleted: 2", "Labels added: 1",
     "Cached execution: 0",
     "Query internal execution time: 0.01337 milliseconds"}

Statistics(lines) == ValueBulk([i \in 1..Len(lines) |-> ValueData(lines[i])])

SampleHeader == ValueBulk(<<HeaderPair(1, "a")>>)

SampleRows == ValueBulk(<<ValueBulk(<<Enc(VALUE_INTEGER, ValueInt(I64(4)))>>)>>)

SampleStatistics ==
    Statistics(<<"Nodes created: 3", "Query internal execution time: 0.01337 milliseconds">>)

Replies ==
    {ValueBulk(<<SampleHeader, ValueBulk(rows), SampleStatistics>>) :
        rows \in SeqsUpTo(ReplyRows, MaxRows)}
    \cup {ValueBulk(<<header, rows, SampleStatistics>>) :
            header \in Headers,
            rows \in {SampleRows, ValueBulk(<<>>),
                      ValueBulk(<<ValueBulk(<<Enc(VALUE_STRING, ValueData("abc"))>>)>>)}}
    \cup {ValueBulk(<<SampleHeader, SampleRows, Statistics(lines)>>) :
            lines \in SeqsUpTo(StatisticLines, MaxSeqLen)}
    \cup {ValueBulk(<<Statistics(lines)>>) : lines \in SeqsUpTo(StatisticLines, MaxSeqLen)}
    \cup {ValueBulk(<<SampleHeader, rows, stats>>) :
            rows \in {SampleRows, ValueNil, ValueData("abc")},
            stats \in {ValueNil, ValueData("Nodes created: 3"),
                       ValueBulk(<<ValueInt(I64(3))>>), ValueBulk(<<ValueNil>>)}}
    \cup {ValueBulk(<<ValueData("abc")>>), ValueBulk(<<ValueNil>>)}
    \cup {ValueBulk(items) : items \in {<<>>, <<SampleHeader, SampleRows>>,
                                        <<SampleRows, SampleStatistics>>,
                                        <<SampleHeader, SampleRows, SampleStatistics,
                                          SampleStatistics>>,
                                        <<SampleHeader, SampleRows, SampleStatistics,
                                          SampleHeader, SampleStatistics>>}}
    \cup {ValueNil, ValueOkay, ValueInt(I64(3)), ValueData("abc"), ValueStatus("OK")}

RowTypes ==
    {TupleOf(<<Ty("i32")>>), TupleOf(<<Ty("u8"), Ty("String")>>),
     TupleOf(<<OptionOf(Ty("i32"))>>), VecOf(Ty("GraphValue")), Ty("GraphValue"),
     Ty("()")}

ResponseIdle ==
    /\ decTag = Idle /\ decRaw = Idle /\ decResult = Idle
    /\ access = Idle /\ accessResult = Idle
    /\ convValue = Idle /\ convTarget = Idle /\ convResult = Idle
    /\ graphQuery = Idle /\ rendered = Idle /\ command = Idle
    /\ constructed = Idle

ResponseInit ==
    /\ reply \in Replies
    /\ rowType \in RowTypes
    /\ response = Idle
    /\ lookup = Idle
    /\ statistic = Idle
    /\ ResponseIdle

\* GraphResponse::<T>::parse_response(&reply) is called.
ParseResponse ==
    /\ response = Idle
    /\ response' = parse_response(rowType, reply)
    /\ UNCHANGED <<decTag, decRaw, access, accessResult, decResult, convValue, convTarget,
                   convResult, reply, rowType, lookup, statistic, graphQuery, rendered,
                   command, constructed>>

\* response.get_statistic(stat) is called on a response that was returned.
GetStatistic(stat) ==
    /\ "ok" \in DOMAIN response
    /\ response.ok
    /\ lookup' = stat
    /\ statistic' = get_statistic(response.v, stat)
    /\ UNCHANGED <<decTag, decRaw, access, accessResult, decResult, convValue, convTarget,
                   convResult, reply, rowType, response, graphQuery, rendered, command,
                   constructed>>

ResponseNext ==
    \/ ParseResponse
    \/ \E stat \in GraphStatistics : GetStatistic(stat)

SpecResponse == ResponseInit /\ [][ResponseNext]_vars

-----------------------------------------------------------------------------
(* Claims about the response *)

Parsed == response # Idle

IsHeaderPair(e) ==
    /\ e.k = "Bulk"
    /\ Len(e.items) = 2
    /\ e.items[1].k = "Int"
    /\ e.items[2].k = "Data"

\* A reply of three elements: a header of (type-id, name) pairs, a sequence of
\* rows that are sequences, and a list of statistics strings.
IsTable(v) ==
    /\ v.k = "Bulk"
    /\ Len(v.items) = 3
    /\ v.items[1].k = "Bulk"
    /\ \A i \in 1..Len(v.items[1].items) : IsHeaderPair(v.items[1].items[i])
    /\ v.items[2].k = "Bulk"
    /\ \A i \in 1..Len(v.items[2].items) : v.items[2].items[i].k = "Bulk"
    /\ v.items[3].k = "Bulk"
    /\ \A i \in 1..Len(v.items[3].items) : v.items[3].items[i].k = "Data"

\* The decoding of cell j of row i of the reply v.
Cell(v, i, j) ==
    LET cell == v.items[2].items[i].items[j]
    IN  IF cell.k = "Bulk" /\ Len(cell.items) = 2 /\ cell.items[1].k = "Int"
        THEN convert_to_graphvalue(cell.items[1].i, cell.items[2])
        ELSE create_rediserror("no (tag, raw) pair", <<cell>>)

RowsDecode(v) ==
    \A i \in 1..Len(v.items[2].items) :
        \A j \in 1..Len(v.items[2].items[i].items) : Cell(v, i, j).ok

\* The Array built from the decoded pairs of row i of the reply v.
RowArray(v, i) ==
    Array([j \in 1..Len(v.items[2].items[i].items) |-> Cell(v, i, j).v])

\* C2: for a 3-element reply (header of (type-id, name) pairs, rows,
\* statistics strings), parse_response yields a response whose header is the
\* names of the pairs in order, whose statistics are element 2 unchanged and
\* whose data has one entry per row in row order, entry i being T's conversion
\* of the Array of the decoded pairs of row i; if any row does not decode or
\* convert, parse_response returns an error and no data.
C2_ThreeElementReply ==
    (Parsed /\ IsTable(reply)) =>
        LET rows == reply.items[2].items
            converts == RowsDecode(reply)
                        /\ \A i \in 1..Len(rows) :
                              from_graph_value(rowType, RowArray(reply, i)).ok
        IN  /\ ~Panicked(response)
            /\ response.ok <=> converts
            /\ response.ok =>
                /\ response.v.header =
                      [i \in 1..Len(reply.items[1].items) |->
                          reply.items[1].items[i].items[2].s]
                /\ response.v.statistics =
                      [i \in 1..Len(reply.items[3].items) |-> reply.items[3].items[i].s]
                /\ Len(response.v.data) = Len(rows)
                /\ \A i \in 1..Len(rows) :
                      response.v.data[i] = from_graph_value(rowType, RowArray(reply, i)).v
            /\ ~response.ok => DOMAIN response = {"ok", "err"}

\* Three rows of one Integer column each are parsed as rows of type (i32,).
C2_Witness ==
    /\ Parsed
    /\ IsTable(reply)
    /\ rowType = TupleOf(<<Ty("i32")>>)
    /\ Len(reply.items[2].items) = MaxRows
    /\ ~Panicked(response)
    /\ response.ok
    /\ response.v.header = <<"a">>
    /\ response.v.data = <<<<I64(4)>>, <<I64(5)>>, <<I64(4)>>>>
    /\ Len(response.v.statistics) = 2

\* C15: for a reply of one element that is a list of strings, parse_response
\* yields, for every row type, a response with an empty header, empty data and
\* the strings of that element, in their order, as statistics.  A reply holding
\* ["Nodes created: 3"] yields the statistics ["Nodes created: 3"].
C15_OneElementReply ==
    /\ \A T \in RowTypes :
          parse_response(T, ValueBulk(<<ValueBulk(<<ValueData("Nodes created: 3")>>)>>))
            = Ok(NewGraphResponse(<<>>, <<>>, <<"Nodes created: 3">>))
    /\ (/\ Parsed
        /\ IsBulkOf(reply, 1)
        /\ reply.items[1].k = "Bulk"
        /\ \A i \in 1..Len(reply.items[1].items) : reply.items[1].items[i].k = "Data")
       => response = Ok(NewGraphResponse(<<>>, <<>>,
                          [i \in 1..Len(reply.items[1].items) |-> reply.items[1].items[i].s]))

\* A reply of one element holding two statistics was parsed for rows of (i32,).
C15_Witness ==
    /\ Parsed
    /\ IsBulkOf(reply, 1)
    /\ rowType = TupleOf(<<Ty("i32")>>)
    /\ ~Panicked(response)
    /\ response.ok
    /\ response.v.header = <<>>
    /\ response.v.data = <<>>
    /\ response.v.statistics = <<"Nodes created: 3", "Labels added: 1">>

\* C16: for a reply that is no sequence, or a sequence of 0, 2, 4 or more
\* elements, parse_response returns an error and no response, and for a
\* sequence the error tells its length.
C16_OtherShapes ==
    (Parsed /\ ~IsBulkOf(reply, 1) /\ ~IsBulkOf(reply, 3)) =>
        /\ IsError(response)
        /\ reply.k = "Bulk" =>
              /\ response.err.desc = "Can't parse response of length {} to GraphResponse"
              /\ response.err.shows = <<Len(reply.items)>>

\* A reply of two elements, rows and statistics without a header, was refused.
C16_Witness ==
    /\ Parsed
    /\ IsBulkOf(reply, 2)
    /\ reply.items[2] = SampleStatistics
    /\ IsError(response)
    /\ response.err.shows = <<2>>

\* The header entry does not read as a (type-id, name) pair.
MalformedEntry(e) ==
    ~from_redis_value(TupleOf(<<Ty("i64"), Ty("String")>>), e).ok

\* A reply of three elements whose header is a sequence with a malformed entry.
HasMalformedHeader(v) ==
    /\ IsBulkOf(v, 3)
    /\ v.items[1].k = "Bulk"
    /\ \E i \in 1..Len(v.items[1].items) : MalformedEntry(v.items[1].items[i])

\* C19: for every 3-element reply whose header holds an entry that is no
\* decodable (type-id, name) pair, parse_response returns a decode error: it
\* does not abort and it does not return a response without that entry.
C19_MalformedHeader ==
    (Parsed /\ HasMalformedHeader(reply)) => IsError(response)

\* C19: what the code does on such a reply: an error if the rows or the
\* statistics do not read as sequences of decodable rows and of strings, and
\* otherwise the panic of the unwrap in parse_header; never a response.
C19_MalformedHeaderAborts ==
    (Parsed /\ HasMalformedHeader(reply)) =>
        LET parts == from_redis_value(TupleOf(<<VecOf(Ty("Value")),
                                                VecOf(VecOf(Ty("GraphValue"))),
                                                VecOf(Ty("String"))>>), reply)
        IN  IF parts.ok
            THEN response = Panic("called Result::unwrap() on an Err value")
            ELSE response = parts /\ IsError(response)

\* C19: the header of the reply was the single entry "a", no pair, its rows and
\* statistics were well formed, and parse_response panicked.
C19_Witness ==
    /\ Parsed
    /\ reply = ValueBulk(<<ValueBulk(<<ValueData("a")>>), SampleRows, SampleStatistics>>)
    /\ Panicked(response)

LookedUp == statistic # Idle

\* The lines of the response that start with the label of the statistic.
Hits(lines, stat) == {i \in 1..Len(lines) : starts_with(lines[i], match_name(stat))}

\* The line reads  <text>": "<number>  or  <text>": "<number>" "<unit>, where
\* <text> holds no ": ", <number> holds no space and is at positions b..e.
ReadsAs(line, b, e) ==
    /\ b >= 3
    /\ SubSeq(line, b - 2, b - 1) = ": "
    /\ \A h \in 1..(b - 3) : SubSeq(line, h, h + 1) # ": "
    /\ \A h \in b..e : Char(line, h) # " "
    /\ e = Len(line) \/ Char(line, e + 1) = " "

\* C10: get_statistic(stat) returns absent when no statistics string starts
\* with the label of stat; when one does and it reads "<label..>: <number>" or
\* "<label..>: <number> <unit>", it returns the number parsed from the text
\* between ": " and the first following space.  ["Nodes created: 3"] gives 3
\* for NodesCreated and "Query internal execution time: 0.01337 milliseconds"
\* gives 0.01337 for ExecutionTime.
C10_GetStatistic ==
    /\ get_statistic([statistics |-> <<"Nodes created: 3">>], "NodesCreated") = Some("3")
    /\ get_statistic([statistics |->
            <<"Query internal execution time: 0.01337 milliseconds">>], "ExecutionTime")
         = Some("0.01337")
    /\ LookedUp =>
        LET lines == response.v.statistics
            hits == Hits(lines, lookup)
        IN  /\ hits = {} => statistic = None
            /\ hits # {} =>
                LET first == lines[CHOOSE i \in hits : \A j \in hits : i <= j]
                IN  \A e \in 0..Len(first) : \A b \in 1..(e + 1) :
                        (ReadsAs(first, b, e) /\ parse_f64(SubSeq(first, b, e)).ok)
                        => statistic = Some(parse_f64(SubSeq(first, b, e)).v)

\* The execution time is looked up in a response whose statistics hold it with
\* its unit, after another line.
C10_Witness ==
    /\ LookedUp
    /\ lookup = "ExecutionTime"
    /\ Len(response.v.statistics) = 2
    /\ response.v.statistics[2] = "Query internal execution time: 0.01337 milliseconds"
    /\ statistic = Some("0.01337")

\* A step that looks the statistic stat up: the first line that starts with
\* the label decides, whatever follows it, and the response stays as it is.
C23_Step ==
    \A stat \in GraphStatistics :
        (statistic' # Idle /\ GetStatistic(stat)) =>
            LET lines == response.v.statistics
                hits == Hits(lines, stat)
            IN  /\ response' = response
                /\ hits = {} => statistic' = None
                /\ hits # {} =>
                    LET at == CHOOSE i \in hits : \A j \in hits : i <= j
                        first == lines[at]
                    IN  /\ find(first, ": ") = 0 => statistic' = None
                        /\ \A e \in 0..Len(first) : \A b \in 1..(e + 1) :
                              (ReadsAs(first, b, e) /\ parse_f64(SubSeq(first, b, e)).ok)
                              => statistic' = Some(parse_f64(SubSeq(first, b, e)).v)
                        /\ statistic' =
                              get_statistic([statistics |-> SubSeq(lines, 1, at)], stat)
                        /\ statistic' = get_statistic([statistics |-> <<first>>], stat)

\* C23: the result of get_statistic(stat) is decided by the first statistics
\* string, in list order, that starts with the label of stat, and by no later
\* one: when that string holds no ": " the result is absent, also when a later
\* string is a well-formed line of the same statistic; when several well-formed
\* lines match, the value of the earliest is returned; the list is not changed
\* by a lookup.
C23_FirstLineDecides == [][C23_Step]_<<statistic, response, lookup>>

\* C23: the nodes created were looked up in the statistics "Nodes created",
\* "Nodes created: 3", and the result is absent.
C23_Witness ==
    /\ LookedUp
    /\ lookup = "NodesCreated"
    /\ response.v.statistics = <<"Nodes created", "Nodes created: 3">>
    /\ statistic = None

-----------------------------------------------------------------------------
(* GraphQuery and Parameter (types.rs), query! (helpers.rs) *)

\* The variants of Parameter.
ParameterString(string) == [p |-> "String", s |-> string]
ParameterInt(int) == [p |-> "Int", i |-> int]
ParameterDouble(double) == [p |-> "Double", d |-> double]

\* A value written in the program: its type and its literal.
Written(ty, lit) == [ty |-> ty, lit |-> lit]

IntParameterTypes == {"i8", "i16", "i32", "i64", "u8", "u16", "u32"}

\* f64::from(f32): the f64 nearest to 0.1f32 is not the f64 0.1; 4.5 and 0.5 are
\* the same number in both widths.
f64_from_f32(d) == IF d = "0.1" THEN "0.10000000149011612" ELSE d

\* Parameter::from: parameter_from_int!, parameter_from_double! and the three
\* impls for strings.
Parameter_from(w) ==
    CASE w.ty \in IntParameterTypes -> ParameterInt(parse_i64(w.lit).v)
      [] w.ty = "f64" -> ParameterDouble(parse_f64(w.lit).v)
      [] w.ty = "f32" -> ParameterDouble(f64_from_f32(parse_f64(w.lit).v))
      [] w.ty \in {"&str", "String", "&String"} -> ParameterString(w.lit)

NewGraphQuery(query, params, read_only) ==
    [query |-> query, params |-> params, read_only |-> read_only]

\* A query! that collects the parameters last written first.
query_macro_reversed(s, kvs, ro) ==
    NewGraphQuery(s, [i \in 1..Len(kvs) |->
                        <<kvs[Len(kvs) + 1 - i][1], Parameter_from(kvs[Len(kvs) + 1 - i][2])>>],
                  IF ro.some THEN ro.v ELSE FALSE)

\* query!(s), query!(s, ro), query!(s, {k => v, ..}) and query!(s, {k => v, ..}, ro):
\* kvs are the written pairs, ro the flag where one is written.
query_macro(s, kvs, ro) ==
    NewGraphQuery(s, [i \in 1..Len(kvs) |-> <<kvs[i][1], Parameter_from(kvs[i][2])>>],
                  IF ro.some THEN ro.v ELSE FALSE)

\* impl From<&'static str> for GraphQuery
GraphQuery_from(query) == NewGraphQuery(query, <<>>, FALSE)

\* A char::escape_default that leaves the backslash as it is.
char_escape_default_quotes_only(c) ==
    CASE c = "\t" -> "\\t"
      [] c = "\r" -> "\\r"
      [] c = "\n" -> "\\n"
      [] c = "'"  -> "\\'"
      [] c = "\"" -> "\\\""
      [] c = "\f" -> "\\u{c}"
      [] OTHER    -> c

\* char::escape_default: \t, \r, \n, the two quotes and the backslash get a
\* backslash, printable ASCII stays, any other character is written \u{hex}
\* (the form feed is the one such character of the model).
char_escape_default(c) ==
    CASE c = "\t" -> "\\t"
      [] c = "\r" -> "\\r"
      [] c = "\n" -> "\\n"
      [] c = "'"  -> "\\'"
      [] c = "\"" -> "\\\""
      [] c = "\\" -> "\\\\"
      [] c = "\f" -> "\\u{c}"
      [] OTHER    -> c

RECURSIVE escape_default(_)
\* str::escape_default
escape_default(string) ==
    IF string = "" THEN ""
    ELSE char_escape_default(Head(string)) \o escape_default(Tail(string))

\* The text parse_params appends for one parameter.
format_param(key, value) ==
    CASE value.p = "Int"    -> key \o "=" \o i64_to_string(value.i) \o " "
      [] value.p = "Double" -> key \o "=" \o value.d \o " "
      [] value.p = "String" -> key \o "=\"" \o escape_default(value.s) \o "\" "

RECURSIVE push_params(_, _)
\* The for_each of parse_params: prepend after the parameters were pushed.
push_params(prepend, params) ==
    IF params = <<>> THEN prepend
    ELSE push_params(prepend \o format_param(params[1][1], params[1][2]), Tail(params))

\* A parse_params that writes the parameters last to first.
parse_params_reversed(self) ==
    IF self.params = <<>> THEN ""
    ELSE push_params("CYPHER ", [i \in 1..Len(self.params) |->
                                    self.params[Len(self.params) + 1 - i]])

\* GraphQuery::parse_params
parse_params(self) ==
    IF self.params = <<>> THEN ""
    ELSE push_params("CYPHER ", self.params)

\* GraphQuery::construct_query
construct_query(self) == parse_params(self) \o self.query

\* A read_type that takes a query without parameters for a read-only one.
read_type_by_params(self) ==
    IF self.read_only \/ self.params = <<>> THEN "GRAPH.RO_QUERY" ELSE "GRAPH.QUERY"

\* GraphQuery::read_type
read_type(self) == IF self.read_only THEN "GRAPH.RO_QUERY" ELSE "GRAPH.QUERY"

\* GraphCommands::graph_query: the command that is sent, its name first.
graph_query_cmd(graph, query) ==
    <<read_type(query), graph, construct_query(query), "--compact">>

\* An add_parameter that gives a name that is in the list already its new
\* value, in place.
add_parameter_replacing(self, key, value) ==
    IF \E i \in 1..Len(self.params) : self.params[i][1] = key
    THEN [self EXCEPT !.params =
            [i \in 1..Len(self.params) |->
                IF self.params[i][1] = key THEN <<key, Parameter_from(value)>>
                ELSE self.params[i]]]
    ELSE [self EXCEPT !.params = Append(self.params, <<key, Parameter_from(value)>>)]

\* GraphQuery::add_parameter
add_parameter(self, key, value) ==
    [self EXCEPT !.params = Append(self.params, <<key, Parameter_from(value)>>)]

\* GraphQuery::read_only
read_only(self, flag) == [self EXCEPT !.read_only = flag]

-----------------------------------------------------------------------------
(* Queries that are built, changed and rendered *)

MaxStrLen == 2

MaxParams == 2

Alphabet == {"a", "\"", "\\", "'", "\n", "\f"}

RECURSIVE StringsUpTo(_)
\* The strings over the alphabet of n characters at most.
StringsUpTo(n) ==
    IF n = 0 THEN {""}
    ELSE StringsUpTo(n - 1) \cup {s \o c : s \in StringsUpTo(n - 1), c \in Alphabet}

\* The strings over the alphabet, and the strings of the tests.
StringValues ==
    StringsUpTo(MaxStrLen)
        \cup {"x\"y", "\\\" Return 1337//", "a\\\"b\\'c'd\"e", "username"}

Templates == {"Return $a", "MATCH (n {name: $a}) RETURN n.age + $b"}

Keys == {"a", "b"}

WrittenNumbers ==
    {Written("i32", "5"), Written("i8", "-128"), Written("u32", "4294967295"),
     Written("i64", "-9223372036854775808"), Written("i64", "9223372036854775807"),
     Written("f64", "4.8"), Written("f64", "4.0"), Written("f64", "-0.01337"),
     Written("f32", "4.5"), Written("f32", "0.1")}

WrittenStrings == {Written(ty, lit) : ty \in {"&str"}, lit \in StringValues}
                    \cup {Written("String", "x\"y"), Written("&String", "\\\"")}

\* The values the parameters that are added later are taken from.
AddedValues == {Written("i32", "1337"), Written("&str", "x\"y")}

QueryIdle ==
    /\ decTag = Idle /\ decRaw = Idle /\ decResult = Idle
    /\ access = Idle /\ accessResult = Idle
    /\ convValue = Idle /\ convTarget = Idle /\ convResult = Idle
    /\ reply = Idle /\ rowType = Idle /\ response = Idle
    /\ lookup = Idle /\ statistic = Idle

\* GraphQuery::from(s) as it is written, with the GraphQuery it makes.
ByFrom(s) ==
    [form |-> "GraphQuery::from", s |-> s, kvs |-> <<>>, ro |-> None,
     made |-> GraphQuery_from(s)]

\* query!(s), query!(s, ro), query!(s, {k => v, ..}) or query!(s, {k => v, ..}, ro)
\* as it is written, with the GraphQuery it makes.
ByMacro(s, kvs, ro) ==
    [form |-> "query!", s |-> s, kvs |-> kvs, ro |-> ro, made |-> query_macro(s, kvs, ro)]

\* The query is made by GraphQuery::from or by one of the forms of query!.
QueryInit ==
    /\ \/ \E s \in Templates : constructed = ByFrom(s)
       \/ \E s \in Templates, ro \in {None, Some(TRUE), Some(FALSE)} :
             constructed = ByMacro(s, <<>>, ro)
       \/ \E s \in Templates, k \in Keys, w \in WrittenNumbers, ro \in {None, Some(TRUE)} :
             constructed = ByMacro(s, <<<<k, w>>>>, ro)
       \/ \E w \in WrittenStrings : constructed = ByMacro("Return $a", <<<<"a", w>>>>, None)
       \/ \E s \in Templates, k1 \in Keys, k2 \in Keys, w1 \in AddedValues,
             w2 \in AddedValues, ro \in {None, Some(TRUE)} :
             constructed = ByMacro(s, <<<<k1, w1>>, <<k2, w2>>>>, ro)
    /\ graphQuery = constructed.made
    /\ rendered = Idle
    /\ command = Idle
    /\ QueryIdle

\* query.add_parameter(key, value) is called; the model stops at MaxParams.
AddParameter(key, value) ==
    /\ Len(graphQuery.params) < MaxParams
    /\ graphQuery' = add_parameter(graphQuery, key, value)
    /\ UNCHANGED <<decTag, decRaw, access, accessResult, decResult, convValue, convTarget,
                   convResult, reply, rowType, response, lookup, statistic, rendered,
                   command, constructed>>

\* query.read_only(flag) is called.
ReadOnly(flag) ==
    /\ graphQuery' = read_only(graphQuery, flag)
    /\ UNCHANGED <<decTag, decRaw, access, accessResult, decResult, convValue, convTarget,
                   convResult, reply, rowType, response, lookup, statistic, rendered,
                   command, constructed>>

\* query.construct_query() is called; the caller keeps the text with the query
\* it was rendered of.
ConstructQuery ==
    /\ rendered' = [self |-> graphQuery, text |-> construct_query(graphQuery)]
    /\ UNCHANGED <<decTag, decRaw, access, accessResult, decResult, convValue, convTarget,
                   convResult, reply, rowType, response, lookup, statistic, graphQuery,
                   command, constructed>>

\* query.read_type() is called; the caller keeps the name with the query.
ReadType ==
    /\ command' = [self |-> graphQuery, name |-> read_type(graphQuery)]
    /\ UNCHANGED <<decTag, decRaw, access, accessResult, decResult, convValue, convTarget,
                   convResult, reply, rowType, response, lookup, statistic, graphQuery,
                   rendered, constructed>>

QueryNext ==
    \/ \E key \in Keys, value \in AddedValues : AddParameter(key, value)
    \/ \E flag \in BOOLEAN : ReadOnly(flag)
    \/ ConstructQuery
    \/ ReadType

SpecQuery == QueryInit /\ [][QueryNext]_vars

-----------------------------------------------------------------------------
(* Claims about the rendering of a query *)

Rendered == rendered # Idle

\* The least position from p on at which text holds the character c, 0 if none.
FirstAt(text, p, c) ==
    LET hits == {q \in p..Len(text) : Char(text, q) = c}
    IN  IF hits = {} THEN 0 ELSE CHOOSE q \in hits : \A r \in hits : q <= r

RECURSIVE LiteralEnd(_, _)
\* The position of the double quote that closes the literal whose first
\* character is at p, as a reader of the text finds it: a backslash takes the
\* character after it along; 0 if the literal is not closed.
LiteralEnd(text, p) ==
    IF p > Len(text) THEN 0
    ELSE IF Char(text, p) = "\\" THEN LiteralEnd(text, p + 2)
    ELSE IF Char(text, p) = "\"" THEN p
    ELSE LiteralEnd(text, p + 1)

NoItems == [ok |-> FALSE, items |-> <<>>, rest |-> 0]

RECURSIVE Lex(_, _, _)
\* The n items  name=value" "  read from position p of text: the name up to
\* "=", then a literal in double quotes or a bare word up to the space, then
\* one space.  rest is the position after the last item.
Lex(text, p, n) ==
    IF n = 0 THEN [ok |-> TRUE, items |-> <<>>, rest |-> p]
    ELSE LET eq == FirstAt(text, p, "=")
         IN  IF eq = 0 \/ eq = Len(text) THEN NoItems
             ELSE IF Char(text, eq + 1) = "\""
             THEN LET e == LiteralEnd(text, eq + 2)
                  IN  IF e = 0 \/ e >= Len(text) \/ Char(text, e + 1) # " " THEN NoItems
                      ELSE LET more == Lex(text, e + 2, n - 1)
                           IN  IF ~more.ok THEN NoItems
                               ELSE [ok |-> TRUE,
                                     items |-> <<[key |-> SubSeq(text, p, eq - 1),
                                                  quoted |-> TRUE,
                                                  text |-> SubSeq(text, eq + 2, e - 1)]>>
                                               \o more.items,
                                     rest |-> more.rest]
             ELSE LET sp == FirstAt(text, eq + 1, " ")
                  IN  IF sp = 0 THEN NoItems
                      ELSE LET more == Lex(text, sp + 1, n - 1)
                           IN  IF ~more.ok THEN NoItems
                               ELSE [ok |-> TRUE,
                                     items |-> <<[key |-> SubSeq(text, p, eq - 1),
                                                  quoted |-> FALSE,
                                                  text |-> SubSeq(text, eq + 1, sp - 1)]>>
                                               \o more.items,
                                     rest |-> more.rest]

\* text is the decimal text of the integer int, with no sign but a minus and
\* no zero before the first digit.
IsBareInt(text, int) ==
    /\ parse_i64(text) = Ok(int)
    /\ Head(text) # "+"
    /\ Len(text) > 1 => (Head(text) # "0" /\ SubSeq(text, 1, 2) # "-0")

\* C8: construct_query renders a query without parameters as its template,
\* unchanged; one with parameters as "CYPHER ", then one item "name=value " per
\* parameter in the order of the list (an integer and a double bare, a string
\* between double quotes), then the template, verbatim, as the end of the text.
C8_ConstructQuery ==
    Rendered =>
        LET self == rendered.self
            text == rendered.text
            n == Len(self.params)
            lexed == Lex(text, Len("CYPHER ") + 1, n)
        IN  /\ n = 0 => text = self.query
            /\ n > 0 =>
                /\ starts_with(text, "CYPHER ")
                /\ lexed.ok
                /\ \A i \in 1..n :
                      LET item == lexed.items[i]
                          value == self.params[i][2]
                      IN  /\ item.key = self.params[i][1]
                          /\ value.p = "Int" => ~item.quoted /\ IsBareInt(item.text, value.i)
                          /\ value.p = "Double" => ~item.quoted /\ item.text = value.d
                          /\ value.p = "String" => item.quoted
                /\ SubSeq(text, lexed.rest, Len(text)) = self.query
                /\ Len(text) = lexed.rest - 1 + Len(self.query)

\* A query of two parameters, an integer and a string, was rendered.
C8_Witness ==
    /\ Rendered
    /\ Len(rendered.self.params) = 2
    /\ rendered.self.params[1][2].p = "Int"
    /\ rendered.self.params[2][2].p = "String"
    /\ rendered.text = "CYPHER a=1337 b=\"x\\\"y\" Return $a"

RECURSIVE Units(_)
\* The escaped text cut into its units: a backslash with the character after
\* it (with the braces and what they hold after \u), or one character.
Units(text) ==
    IF text = "" THEN <<>>
    ELSE IF Head(text) # "\\" THEN <<SubSeq(text, 1, 1)>> \o Units(Tail(text))
    ELSE IF Len(text) >= 2 /\ Char(text, 2) = "u" /\ FirstAt(text, 3, "}") # 0
    THEN <<SubSeq(text, 1, FirstAt(text, 3, "}"))>>
            \o Units(SubSeq(text, FirstAt(text, 3, "}") + 1, Len(text)))
    ELSE <<SubSeq(text, 1, 2)>> \o Units(SubSeq(text, 3, Len(text)))

\* The character a unit stands for, "" for a unit that stands for none.
UnitValue(unit) ==
    CASE unit = "\\t" -> "\t"
      [] unit = "\\r" -> "\r"
      [] unit = "\\n" -> "\n"
      [] unit = "\\'" -> "'"
      [] unit = "\\\"" -> "\""
      [] unit = "\\\\" -> "\\"
      [] unit = "\\u{c}" -> "\f"
      [] Len(unit) = 1 /\ unit \notin {"\\", "\""} -> unit
      [] OTHER -> ""

\* escape_default of every string value of the model.
Escaped == [string \in StringValues |-> escape_default(string)]

\* The string values of the model that are escaped to a text.
EscapedTo ==
    [text \in {Escaped[string] : string \in StringValues} |->
        {string \in StringValues : Escaped[string] = text}]

\* C9: for every String parameter s of a rendered query, the text between the
\* double quotes of its item is an escaping of s: s is recovered from it unit
\* by unit, no other string value gets the same text, every double quote and
\* every backslash of s is written with a backslash before it, and the literal
\* ends where the item ends and not before.  The value x"y is rendered as
\* a="x\"y", and the value \" Return 1337// stays inside its literal.
C9_StringEscaping ==
    /\ construct_query(query_macro("Return $a", <<<<"a", Written("&str", "x\"y")>>>>, None))
          = "CYPHER a=\"x\\\"y\" Return $a"
    /\ Rendered =>
        LET self == rendered.self
            lexed == Lex(rendered.text, Len("CYPHER ") + 1, Len(self.params))
        IN  \A i \in 1..Len(self.params) :
                self.params[i][2].p = "String" =>
                    LET string == self.params[i][2].s
                        units == Units(lexed.items[i].text)
                    IN  /\ lexed.ok
                        /\ lexed.items[i].quoted
                        /\ Len(units) = Len(string)
                        /\ \A j \in 1..Len(string) :
                              /\ UnitValue(units[j]) = Char(string, j)
                              /\ Char(string, j) \in {"\"", "\\"}
                                    => units[j] = "\\" \o Char(string, j)
                        /\ lexed.items[i].text \in DOMAIN EscapedTo =>
                              EscapedTo[lexed.items[i].text] \subseteq {string}

\* The value \" Return 1337// of the tests was rendered: its literal holds the
\* whole value and the template follows it.
C9_Witness ==
    /\ Rendered
    /\ Len(rendered.self.params) >= 1
    /\ rendered.self.params[1][2] = ParameterString("\\\" Return 1337//")
    /\ starts_with(rendered.text, "CYPHER a=\"\\\\\\\" Return 1337//\" ")

-----------------------------------------------------------------------------
(* Claims about the command and the construction of a query *)

Named == command # Idle

\* C17: the command name depends on the read-only flag alone: read_type gives
\* GRAPH.RO_QUERY exactly when the flag is true and GRAPH.QUERY exactly when it
\* is false, whatever the template and the parameters of the query are, and
\* that name is the name of the command graph_query sends.
C17_CommandName ==
    Named =>
        /\ command.name = "GRAPH.RO_QUERY" <=> command.self.read_only
        /\ command.name = "GRAPH.QUERY" <=> ~command.self.read_only
        /\ graph_query_cmd("graph", command.self)[1] = command.name

\* C17: the name was read of a query that has two parameters and is read-only,
\* and it is GRAPH.RO_QUERY.
C17_Witness ==
    /\ Named
    /\ Len(command.self.params) = 2
    /\ command.self.read_only
    /\ command.name = "GRAPH.RO_QUERY"

\* The parameter is what Parameter::from makes of the written value: Int of
\* the number for an integer type, Double for a float type, String of the text
\* for a string type.
IsParameterOf(p, w) ==
    CASE w.ty \in IntParameterTypes ->
            /\ DOMAIN p = {"p", "i"}
            /\ p.p = "Int"
            /\ i64_to_string(p.i) = w.lit
      [] w.ty \in {"f32", "f64"} ->
            /\ DOMAIN p = {"p", "d"}
            /\ p.p = "Double"
            /\ w.ty = "f64" => p.d = parse_f64(w.lit).v
      [] w.ty \in {"&str", "String", "&String"} ->
            /\ DOMAIN p = {"p", "s"}
            /\ p.p = "String"
            /\ p.s = w.lit

StartsWithList(params, first) ==
    /\ Len(first) <= Len(params)
    /\ SubSeq(params, 1, Len(first)) = first

\* What a step of a query may do.  add_parameter(key, value) appends the one
\* pair (key, Parameter::from(value)) and keeps what was there, a repeated name
\* too; read_only(flag) makes the flag the argument; neither touches anything
\* else, and construct_query and read_type leave the query as it is.
C21_Step ==
    /\ graphQuery'.query = graphQuery.query
    /\ graphQuery'.query = constructed.made.query
    /\ StartsWithList(graphQuery'.params, graphQuery.params)
    /\ StartsWithList(graphQuery'.params, constructed.made.params)
    /\ Len(graphQuery'.params) <= Len(graphQuery.params) + 1
    /\ \A key \in Keys, value \in AddedValues :
          AddParameter(key, value) =>
              /\ Len(graphQuery'.params) = Len(graphQuery.params) + 1
              /\ graphQuery'.params[Len(graphQuery'.params)][1] = key
              /\ IsParameterOf(graphQuery'.params[Len(graphQuery'.params)][2], value)
              /\ graphQuery'.read_only = graphQuery.read_only
    /\ \A flag \in BOOLEAN :
          ReadOnly(flag) =>
              /\ graphQuery'.read_only = flag
              /\ graphQuery'.params = graphQuery.params
    /\ graphQuery'.read_only # graphQuery.read_only =>
          /\ graphQuery'.params = graphQuery.params
          /\ \E flag \in BOOLEAN : ReadOnly(flag)
    /\ graphQuery'.params # graphQuery.params =>
          \E key \in Keys, value \in AddedValues : AddParameter(key, value)
    /\ (ConstructQuery \/ ReadType) => graphQuery' = graphQuery
    /\ (rendered' # rendered \/ command' # command) => graphQuery' = graphQuery

\* C21: through every add_parameter and read_only call the template stays the
\* one given at construction; the parameter list is the initial list followed
\* by the added (name, value) pairs in call order, nothing removed, reordered
\* or de-duplicated, also when a name repeats; the flag is the argument of the
\* last read_only call, or the initial flag if there was none; add_parameter
\* leaves the flag and read_only the parameters; read_type and construct_query
\* change nothing.
C21_FrameOfCalls == [][C21_Step]_vars

\* C21: query!("Return $a", {"a" => 5}) was written, then add_parameter gave
\* the name a a second time, with a string, and read_only(true) was called: the
\* list holds both pairs in call order and the query was rendered as it is.
C21_Witness ==
    /\ constructed # Idle
    /\ constructed.made = NewGraphQuery("Return $a", <<<<"a", ParameterInt(I64(5))>>>>, FALSE)
    /\ graphQuery = NewGraphQuery("Return $a",
                        <<<<"a", ParameterInt(I64(5))>>, <<"a", ParameterString("x\"y")>>>>,
                        TRUE)
    /\ Rendered
    /\ rendered.self = graphQuery
    /\ Named
    /\ command.self = graphQuery

=============================================================================
